---- MODULE Spec2Model ----
(***************************************************************************)
(* A model of right-start-tools: the organization-tree discovery           *)
(* (main.py), the role bootstrap (tools.py, cli.py) and the default-VPC    *)
(* fan-out (vpc.py).  Each part is a state machine of its own with its own *)
(* specification; the variables of the other parts stay at their idle      *)
(* values.                                                                 *)
(***************************************************************************)
EXTENDS Integers, Sequences, FiniteSets, TLC

VARIABLES
    \* the remote organization (AWS Organizations)
    ouParent,      \* OU id -> id of its parent (an OU or the root)
    acctParent,    \* account id -> id of its parent (an OU or the root)
    master,        \* MasterAccountId of describe_organization
    \* show_org_structure / the discovery shared by every command
    pcOrg,         \* position in: get_org_structure; all_accounts
    structure,     \* the OrgStructure returned by get_org_structure
    result,        \* the list returned by OrgStructure.all_accounts()
    \* the remote IAM of every account
    roles,         \* account id -> the role names that exist in it
    \* cli.py create_roles
    dry_run,       \* the --dry-run flag
    pcR,           \* position in create_roles
    batch,         \* accounts = structure.all_accounts()
    idx,           \* index of the loop's current account in batch
    status,        \* the RolesStatus of the current account
    to_create,     \* role_to_create of the current account
    calls,         \* the remote calls issued: records [acct, op, role, as, res]
    echo,          \* what was echoed to the operator: records [acct, msg]
    \* tools.py try_to_assume_and_ask_to_create_role (and _v2)
    stack,         \* the call stack: one frame per running call
    outcome,       \* how the outermost call ended: running, returned, or the error
    exits,         \* every call that has ended: [fn, moved, back, how]
    \* vpc.py process_vpcs
    force,         \* the --force flag
    workers,       \* the --workers option
    pcMain,        \* position of process_vpcs
    aState,        \* account id -> state of its _process_account unit
    rState,        \* account id -> region -> state of its region unit
    rFailed,       \* account id -> a future of its region pool holds an exception
    deleteCalls,   \* the delete / detach calls the last step issued: [is_default, has_enis, op]
    reported,      \* what the last step echoed: [acct, what]
    \* vpc.py _process_region_for_account, one region unit on its own
    regionIn,      \* its inputs: the VPCs of the region, destructive, the call that raises
    regionOut,     \* <<>>, or once it has run <<what it did>>: its calls, echoes, raised
    \* cross_account_vpc_tagger.py
    tagIn,         \* the arguments: entry, region, networking_account_ids, dry_run
    tagPc,         \* position in the entry function
    tagI,          \* index of the loop's current networking account
    tagTodo,       \* the target accounts still to do for the current VPC
    tagShared,     \* shared_subnet_tags: the subnet ids that have tags to copy
    tagLeft,       \* the subnet ids the loop over subnet_tags has still to do
    tagCalls,      \* the remote calls the last step issued: [op, acct, res]
    tagged,        \* the resources the last step gave tags: [acct, res] (res 0: the VPC)
    tagResult,     \* the results the last step recorded: [acct, res, ok]
    tagRemote,     \* a remote call has been issued since the entry
    tagOut,        \* how the entry function ended: running, returned, or the error
    tagAssoc,      \* subnet id -> status of its RAM association in the current VPC
    tagSeen,       \* the last step's subnet was among the target account's subnets
    tagAll,        \* all_results: the networking accounts (by index) with results kept
    tagFailed,     \* the networking accounts (by index) whose processing raised
    tagEcho,       \* what the last step printed about an error
    \* main.py ChildOU.all_accounts / OrgStructure.all_accounts on a stored tree
    ouRank,        \* OU id -> its place in the list that holds it
    acctRank,      \* account id -> its place in the list that holds it
    flatTree,      \* the OrgStructure held in memory
    flatOut,       \* the lists the calls of all_accounts() returned so far
    \* the list operations: main.py list_accounts / list_ous, backend.py
    \* list_active_accounts, generate_sso_profiles_config.py main
    pgOp,          \* which list operation runs
    pgPages,       \* the pages the remote holds: a list of lists of items
    pgPc,          \* position in the operation
    next_token,    \* the continuation token of the last response (0: none)
    pgAccounts,    \* the list built so far
    pgRequests,    \* the pages requested so far, in order
    pgOut,         \* <<>>, or once the operation has returned <<its list>>
    \* generate_sso_profiles_config.py main, after the listing
    ssoAccounts,   \* accounts: the list of [Id, Name]
    permission_set_names,
    ssoPc,         \* position in main
    output_lines,  \* the profile blocks written, in order
    \* backend.py gen_tf_backend
    beRegion,      \* region: the --region option, <<>> when omitted
    beAccounts,    \* accounts: what list_active_accounts returned
    bePc,          \* position in gen_tf_backend
    blocks,        \* the backend blocks rendered so far
    written,       \* what write_tf_file wrote: <<>> before, <<blocks>> after
    \* cli.py check_baseline over tools.py check_tf_state_bucket
    blAccounts,    \* accounts: per account, whether its role can be assumed
                   \* and what head_bucket answers
    blI,           \* the account the loop is at
    blPc,          \* position in check_baseline
    blResult,      \* the last outcome of check_tf_state_bucket
    blEcho,        \* whether the last step echoed "does not exist"
    \* two overlapping operations that move one account to the root
    raceParent,    \* the parent of the account at the remote
    raceOrig,      \* the parent it had before the operations
    opFn,          \* operation -> "exec" or "v1"
    opPc,          \* operation -> its position
    opParentId,    \* operation -> parent_id, once read
    opBegan,       \* operation -> who had moved the account back when it read
    opRan,         \* operation -> <<>>, or <<where the account was and who had
                   \* moved it back when its action ran>>
    movedBack,     \* the operations whose move back succeeded
    \* get_subnet_type_from_name / get_subnet_type_suffix as one call
    snIn,          \* the arguments: subnet_name, vpc_name
    snOut          \* <<>>, or once it has run <<what it returned>>

orgVars == <<ouParent, acctParent, master, pcOrg, structure, result>>
rolesVars == <<roles, dry_run, pcR, batch, idx, status, to_create, calls, echo>>

retryVars == <<stack, outcome, exits>>

vpcVars == <<force, workers, pcMain, aState, rState, rFailed, deleteCalls, reported>>

regionVars == <<regionIn, regionOut>>

\* the parts that are one function applied to its arguments
taggerVars ==
    <<tagIn, tagPc, tagI, tagTodo, tagShared, tagLeft, tagCalls, tagged, tagResult, tagRemote,
      tagOut, tagAssoc, tagSeen, tagAll, tagFailed, tagEcho>>

flattenVars == <<ouRank, acctRank, flatTree, flatOut>>

pagingVars == <<pgOp, pgPages, pgPc, next_token, pgAccounts, pgRequests, pgOut>>

ssoVars == <<ssoAccounts, permission_set_names, ssoPc, output_lines>>

backendVars == <<beRegion, beAccounts, bePc, blocks, written>>

baselineVars == <<blAccounts, blI, blPc, blResult, blEcho>>

raceVars == <<raceParent, raceOrig, opFn, opPc, opParentId, opBegan, opRan, movedBack>>

nameVars == <<snIn, snOut>>

auxVars == <<regionVars, taggerVars, flattenVars, pagingVars, ssoVars,
             backendVars, baselineVars, raceVars, nameVars>>

vars == <<orgVars, rolesVars, retryVars, vpcVars, auxVars>>

-----------------------------------------------------------------------------
(* Bounds *)

MaxOUs == 2
MaxAccounts == 2

Root == 0
OUs == 1..MaxOUs
Accounts == 1..MaxAccounts
ParentIds == {Root} \cup OUs

None == "None"

-----------------------------------------------------------------------------
(* The parts that a specification leaves alone *)

OrgIdle ==
    /\ pcOrg = "idle"
    /\ structure = None
    /\ result = None

RolesIdle ==
    /\ roles = None
    /\ dry_run = FALSE
    /\ pcR = "idle"
    /\ batch = <<>>
    /\ idx = 0
    /\ status = None
    /\ to_create = None
    /\ calls = {}
    /\ echo = {}

RetryIdle ==
    /\ stack = <<>>
    /\ outcome = "idle"
    /\ exits = {}

VpcIdle ==
    /\ force = FALSE
    /\ workers = 0
    /\ pcMain = "idle"
    /\ aState = <<>>
    /\ rState = <<>>
    /\ rFailed = <<>>
    /\ deleteCalls = {}
    /\ reported = {}

RegionIdle ==
    /\ regionIn = None
    /\ regionOut = <<>>

TaggerIdle ==
    /\ tagIn = None
    /\ tagPc = "idle"
    /\ tagI = 0
    /\ tagTodo = <<>>
    /\ tagShared = {}
    /\ tagLeft = <<>>
    /\ tagCalls = {}
    /\ tagged = {}
    /\ tagResult = {}
    /\ tagRemote = FALSE
    /\ tagOut = "idle"
    /\ tagAssoc = <<>>
    /\ tagSeen = FALSE
    /\ tagAll = {}
    /\ tagFailed = {}
    /\ tagEcho = ""

FlattenIdle ==
    /\ ouRank = <<>>
    /\ acctRank = <<>>
    /\ flatTree = None
    /\ flatOut = <<>>

PagingIdle ==
    /\ pgOp = None
    /\ pgPages = <<>>
    /\ pgPc = "idle"
    /\ next_token = 0
    /\ pgAccounts = <<>>
    /\ pgRequests = <<>>
    /\ pgOut = <<>>

SsoIdle ==
    /\ ssoAccounts = <<>>
    /\ permission_set_names = <<>>
    /\ ssoPc = "idle"
    /\ output_lines = <<>>

BackendIdle ==
    /\ beRegion = <<>>
    /\ beAccounts = <<>>
    /\ bePc = "idle"
    /\ blocks = <<>>
    /\ written = <<>>

BaselineIdle ==
    /\ blAccounts = <<>>
    /\ blI = 0
    /\ blPc = "idle"
    /\ blResult = "None"
    /\ blEcho = FALSE

RaceIdle ==
    /\ raceParent = 0
    /\ raceOrig = 0
    /\ opFn = <<>>
    /\ opPc = <<>>
    /\ opParentId = <<>>
    /\ opBegan = <<>>
    /\ opRan = <<>>
    /\ movedBack = {}

NameIdle ==
    /\ snIn = <<>>
    /\ snOut = <<>>

LastIdle == RaceIdle /\ NameIdle

AuxIdle ==
    /\ RegionIdle /\ TaggerIdle /\ FlattenIdle /\ PagingIdle /\ SsoIdle
    /\ BackendIdle /\ BaselineIdle /\ LastIdle

\* what the actions of one part leave unchanged in the others
OrgFrame == UNCHANGED <<rolesVars, retryVars, vpcVars, auxVars>>
RolesFrame ==
    UNCHANGED <<ouParent, acctParent, master, pcOrg, structure, result, retryVars, vpcVars,
                auxVars>>
RetryFrame ==
    UNCHANGED <<ouParent, master, pcOrg, structure, result,
                dry_run, pcR, batch, idx, status, to_create, calls, echo, vpcVars, auxVars>>
VpcFrame == UNCHANGED <<orgVars, rolesVars, retryVars, auxVars>>
MainIdle ==
    /\ ouParent = <<>> /\ acctParent = <<>> /\ master = 0
    /\ OrgIdle /\ RolesIdle /\ RetryIdle /\ VpcIdle
MainFrame == UNCHANGED <<orgVars, rolesVars, retryVars, vpcVars>>
TailFrame == UNCHANGED <<backendVars, baselineVars, raceVars, nameVars>>
RegionFrame ==
    MainFrame /\ TailFrame /\ UNCHANGED <<taggerVars, flattenVars, pagingVars, ssoVars>>
TaggerFrame ==
    MainFrame /\ TailFrame /\ UNCHANGED <<regionVars, flattenVars, pagingVars, ssoVars>>
FlattenFrame ==
    UNCHANGED <<ouParent, acctParent, master, pcOrg, structure, result,
                rolesVars, retryVars, vpcVars, regionVars, taggerVars, pagingVars, ssoVars,
                backendVars, baselineVars, raceVars, nameVars>>
PagingFrame ==
    MainFrame /\ TailFrame /\ UNCHANGED <<regionVars, taggerVars, flattenVars, ssoVars>>
SsoFrame ==
    MainFrame /\ TailFrame /\ UNCHANGED <<regionVars, taggerVars, flattenVars, pagingVars>>
FrontFrame ==
    MainFrame /\ UNCHANGED <<regionVars, taggerVars, flattenVars, pagingVars, ssoVars>>
BackendFrame == FrontFrame /\ UNCHANGED <<baselineVars, raceVars, nameVars>>
BaselineFrame == FrontFrame /\ UNCHANGED <<backendVars, raceVars, nameVars>>
RaceFrame == FrontFrame /\ UNCHANGED <<backendVars, baselineVars, nameVars>>
NameFrame == FrontFrame /\ UNCHANGED <<backendVars, baselineVars, raceVars>>

-----------------------------------------------------------------------------
(* Helpers on sequences *)

RECURSIVE SortedSeq(_)
\* the members of a finite set of integers, ascending
SortedSeq(S) ==
    IF S = {} THEN <<>>
    ELSE LET m == CHOOSE x \in S : \A y \in S : x <= y
         IN <<m>> \o SortedSeq(S \ {m})

Count(x, s) == Cardinality({i \in 1..Len(s) : s[i] = x})

RECURSIVE Concat(_)
\* list.extend over a sequence of lists
Concat(ss) == IF ss = <<>> THEN <<>> ELSE Head(ss) \o Concat(Tail(ss))

-----------------------------------------------------------------------------
(* main.py: Organizations *)

\* the remote hierarchy is a strict single-parent tree: following ouParent
\* from any OU reaches the root
RECURSIVE ReachesRoot(_, _, _)
ReachesRoot(par, o, fuel) ==
    IF o = Root THEN TRUE
    ELSE IF fuel = 0 THEN FALSE
    ELSE ReachesRoot(par, par[o], fuel - 1)

IsTree(par) == \A o \in OUs : ReachesRoot(par, o, MaxOUs)

\* Organizations.list_ous: the OUs whose parent is parent_id, in the
\* remote's order (ascending id)
list_ous(parent_id) == SortedSeq({o \in OUs : ouParent[o] = parent_id})

\* Organizations.list_accounts: the accounts whose parent is parent_id
list_accounts(parent_id) == SortedSeq({a \in Accounts : acctParent[a] = parent_id})

RECURSIVE _get_children(_)
\* Organizations._get_children: for every OU under parent_id, its accounts
\* and, recursively, its child OUs
_get_children(parent_id) ==
    LET ous == list_ous(parent_id)
    IN [i \in 1..Len(ous) |->
           [id |-> ous[i],
            accounts |-> list_accounts(ous[i]),
            ous |-> _get_children(ous[i])]]

\* Organizations.get_org_structure
get_org_structure(root_id) ==
    [root_id |-> root_id,
     children |-> _get_children(root_id),
     master_account |-> master]

RECURSIVE _all_accounts(_)
\* a flatten that puts the accounts of the child OUs first
_all_accounts_children_first(ou) ==
    Concat([i \in 1..Len(ou.ous) |-> _all_accounts(ou.ous[i])]) \o ou.accounts

\* ChildOU._all_accounts: the direct accounts, then each child OU's
_all_accounts(ou) ==
    ou.accounts \o Concat([i \in 1..Len(ou.ous) |-> _all_accounts(ou.ous[i])])

\* OrgStructure.all_accounts
all_accounts(s) ==
    Concat([i \in 1..Len(s.children) |-> _all_accounts(s.children[i])])

InitOrgRemote ==
    /\ ouParent \in {par \in [OUs -> ParentIds] : IsTree(par)}
    /\ acctParent \in [Accounts -> ParentIds]
    /\ master \in Accounts

InitOrg ==
    /\ InitOrgRemote
    /\ pcOrg = "start"
    /\ structure = None
    /\ result = None
    /\ RolesIdle
    /\ RetryIdle
    /\ VpcIdle
    /\ AuxIdle

\* structure = org.get_org_structure(root_id)
GetOrgStructure ==
    /\ pcOrg = "start"
    /\ structure' = get_org_structure(Root)
    /\ pcOrg' = "built"
    /\ UNCHANGED <<ouParent, acctParent, master, result>>
    /\ OrgFrame

\* accounts = structure.all_accounts()
AllAccounts ==
    /\ pcOrg = "built"
    /\ result' = all_accounts(structure)
    /\ pcOrg' = "flattened"
    /\ UNCHANGED <<ouParent, acctParent, master, structure>>
    /\ OrgFrame

NextOrg == GetOrgStructure \/ AllAccounts

SpecOrg == InitOrg /\ [][NextOrg]_vars

-----------------------------------------------------------------------------
(* main.py: ChildOU.all_accounts, OrgStructure.all_accounts on any stored tree *)

\* the calls of all_accounts() made on one tree
MaxCalls == 2

Orders(S) ==
    {f \in [S -> 1..Cardinality(S)] : \A x, y \in S : f[x] = f[y] => x = y}

RECURSIVE OrderBy(_, _)
\* the members of S as the list that holds them in the order of rank
OrderBy(S, rank) ==
    IF S = {} THEN <<>>
    ELSE LET m == CHOOSE x \in S : \A y \in S : rank[x] <= rank[y]
         IN <<m>> \o OrderBy(S \ {m}, rank)

RECURSIVE StoredChildren(_)
\* the ChildOU objects under parent_id: accounts and ous are lists, held in
\* the order they were appended in
StoredChildren(parent_id) ==
    LET ous == OrderBy({o \in OUs : ouParent[o] = parent_id}, ouRank)
    IN [i \in 1..Len(ous) |->
           [id |-> ous[i],
            accounts |-> OrderBy({a \in Accounts : acctParent[a] = ous[i]}, acctRank),
            ous |-> StoredChildren(ous[i])]]

RECURSIVE NodesOf(_)
\* every ChildOU of a list of ChildOU objects, at any depth
NodesOf(children) ==
    IF children = <<>> THEN {}
    ELSE {children[i] : i \in 1..Len(children)}
         \cup UNION {NodesOf(children[i].ous) : i \in 1..Len(children)}

\* a tree of OUs, every account under an OU, in any stored order
InitFlatten ==
    /\ ouParent \in {par \in [OUs -> ParentIds] : IsTree(par)}
    /\ acctParent \in [Accounts -> OUs]
    /\ master = 1
    /\ ouRank \in Orders(OUs)
    /\ acctRank \in Orders(Accounts)
    /\ flatTree = [root_id |-> Root, children |-> StoredChildren(Root), master_account |-> master]
    /\ flatOut = <<>>
    /\ OrgIdle
    /\ RolesIdle
    /\ RetryIdle
    /\ VpcIdle
    /\ RegionIdle
    /\ TaggerIdle
    /\ PagingIdle
    /\ SsoIdle
    /\ BackendIdle
    /\ BaselineIdle
    /\ LastIdle

\* accounts = structure.all_accounts()
CallAllAccounts ==
    /\ Len(flatOut) < MaxCalls
    /\ flatOut' = Append(flatOut, all_accounts(flatTree))
    /\ UNCHANGED <<ouRank, acctRank, flatTree>>
    /\ FlattenFrame

NextFlatten == CallAllAccounts

SpecFlatten == InitFlatten /\ [][NextFlatten]_vars

-----------------------------------------------------------------------------
(* tools.py: RolesStatus, Tools.check_roles, Tools.create_admin_role_in_account *)

ORG_ACCESS_ROLE_NAME == "OrganizationAccountAccessRole"
CT_EXECUTION_ROLE_NAME == "AWSControlTowerExecution"
RoleNames == {ORG_ACCESS_ROLE_NAME, CT_EXECUTION_ROLE_NAME}

\* the identity create_roles itself runs under (the module's Session())
MGMT == "management-session"

\* the ClientErrors a remote call can answer with: AccessDenied, AccessDenied
\* whose message names an explicit deny of a service control policy, and
\* any other code
RemoteErrors == {"AccessDenied", "AccessDeniedSCP", "Other"}

\* e.response["Error"]["Code"]
ErrorCode(e) == IF e \in {"AccessDenied", "AccessDeniedSCP"} THEN "AccessDenied" ELSE e

\* "with an explicit deny in a service control policy" in error_message
HasScpMessage(e) == e = "AccessDeniedSCP"

\* the outcomes of sts.assume_role on a role of an account: a role that does
\* not exist cannot be assumed; one that exists may still be unassumable
AssumeOutcomes(a, r) ==
    (IF r \in roles[a] THEN {"ok"} ELSE {}) \cup RemoteErrors

\* the outcomes of iam.get_role under an assumed identity
GetRoleOutcomes(a, r) ==
    (IF r \in roles[a] THEN {"ok"} ELSE {"NoSuchEntity"}) \cup RemoteErrors

\* the outcomes of iam.create_role: the role must not exist yet
CreateRoleOutcomes(a, r) ==
    (IF r \in roles[a] THEN {"EntityAlreadyExists"} ELSE {"ok"}) \cup RemoteErrors

\* the outcomes of iam.attach_role_policy
AttachOutcomes == {"ok"} \cup RemoteErrors

Call(a, op, r, as, res) == [acct |-> a, op |-> op, role |-> r, as |-> as, res |-> res]

\* _check_role answering False to every error
_check_role_every_error_false(out) ==
    IF out = "ok" THEN [raised |-> FALSE, value |-> TRUE]
    ELSE [raised |-> FALSE, value |-> FALSE]

\* Tools.check_roles._check_role: what one assumption attempt yields
\* (True, False, or the error raised again)
_check_role(out) ==
    IF out = "ok" THEN [raised |-> FALSE, value |-> TRUE]
    ELSE IF ErrorCode(out) = "AccessDenied" THEN [raised |-> FALSE, value |-> FALSE]
    ELSE [raised |-> TRUE, value |-> out]

\* role_to_create with the two elif results exchanged
role_to_create_swapped(st) ==
    IF st.org_access = FALSE /\ st.ct_execution = FALSE
    THEN [raised |-> TRUE, value |-> None]
    ELSE IF st.org_access = FALSE THEN [raised |-> FALSE, value |-> CT_EXECUTION_ROLE_NAME]
    ELSE IF st.ct_execution = FALSE THEN [raised |-> FALSE, value |-> ORG_ACCESS_ROLE_NAME]
    ELSE [raised |-> FALSE, value |-> None]

\* role_to_create whose last elif lost its condition
role_to_create_no_else(st) ==
    IF st.org_access = FALSE /\ st.ct_execution = FALSE
    THEN [raised |-> TRUE, value |-> None]
    ELSE IF st.org_access = FALSE THEN [raised |-> FALSE, value |-> ORG_ACCESS_ROLE_NAME]
    ELSE [raised |-> FALSE, value |-> CT_EXECUTION_ROLE_NAME]

\* RolesStatus.role_to_create
role_to_create(st) ==
    IF st.org_access = FALSE /\ st.ct_execution = FALSE
    THEN [raised |-> TRUE, value |-> None]
    ELSE IF st.org_access = FALSE THEN [raised |-> FALSE, value |-> ORG_ACCESS_ROLE_NAME]
    ELSE IF st.ct_execution = FALSE THEN [raised |-> FALSE, value |-> CT_EXECUTION_ROLE_NAME]
    ELSE [raised |-> FALSE, value |-> None]

\* create_admin_role_in_account assuming the role it is about to create
BootstrapRole_same(rtc) == rtc

\* Tools.create_admin_role_in_account: the role whose credentials are used
\* to create role_to_create
BootstrapRole(rtc) ==
    IF rtc = ORG_ACCESS_ROLE_NAME THEN CT_EXECUTION_ROLE_NAME
    ELSE ORG_ACCESS_ROLE_NAME

\* IAM.is_role_exists: True, False (NoSuchEntityException), or the error
is_role_exists(out) ==
    IF out = "ok" THEN [raised |-> FALSE, value |-> TRUE]
    ELSE IF out = "NoSuchEntity" THEN [raised |-> FALSE, value |-> FALSE]
    ELSE [raised |-> TRUE, value |-> out]

-----------------------------------------------------------------------------
(* cli.py: create_roles *)

\* the loop body going straight to create_role, without the call of
\* create_admin_role_in_account
BranchOutcome_straight_to_create(d, dry) ==
    IF d.raised THEN [pc |-> "next", msg |-> "unable_to_assume"]
    ELSE IF d.value # None
         THEN IF ~dry THEN [pc |-> "create_role", msg |-> "creating"]
              ELSE [pc |-> "next", msg |-> "missing"]
    ELSE [pc |-> "next", msg |-> "already_created"]

\* the loop body without its except ValueError
BranchOutcome_no_except(d, dry) ==
    IF d.raised THEN [pc |-> "raised", msg |-> None]
    ELSE IF d.value # None
         THEN IF ~dry THEN [pc |-> "create_assume", msg |-> "creating"]
              ELSE [pc |-> "next", msg |-> "missing"]
    ELSE [pc |-> "next", msg |-> "already_created"]

\* the loop body without its test of dry_run
BranchOutcome_ignores_dry_run(d, dry) ==
    IF d.raised THEN [pc |-> "next", msg |-> "unable_to_assume"]
    ELSE IF d.value # None THEN [pc |-> "create_assume", msg |-> "creating"]
    ELSE [pc |-> "next", msg |-> "already_created"]

\* the body of the for loop after role_to_create(): where it goes and what
\* it echoes
BranchOutcome(d, dry) ==
    IF d.raised THEN [pc |-> "next", msg |-> "unable_to_assume"]
    ELSE IF d.value # None
         THEN IF ~dry THEN [pc |-> "create_assume", msg |-> "creating"]
              ELSE [pc |-> "next", msg |-> "missing"]
    ELSE [pc |-> "next", msg |-> "already_created"]

InitRoles ==
    /\ ouParent = [o \in OUs |-> Root]
    /\ acctParent = [a \in Accounts |-> 1]
    /\ master = 1
    /\ roles \in [Accounts -> SUBSET RoleNames]
    /\ dry_run \in BOOLEAN
    /\ pcR = "start"
    /\ batch = <<>>
    /\ idx = 0
    /\ status = None
    /\ to_create = None
    /\ calls = {}
    /\ echo = {}
    /\ OrgIdle
    /\ RetryIdle
    /\ VpcIdle
    /\ AuxIdle

\* root_id = get_root_id(); structure = get_org_structure(root_id);
\* accounts = structure.all_accounts()
LoadAccounts ==
    /\ pcR = "start"
    /\ batch' = all_accounts(get_org_structure(Root))
    /\ idx' = 1
    /\ pcR' = "loop"
    /\ UNCHANGED <<roles, dry_run, status, to_create, calls, echo>>
    /\ RolesFrame

\* status = t.check_roles(account): the two assumption attempts, the second
\* only when the first did not raise
CheckRoles ==
    /\ pcR = "loop"
    /\ idx <= Len(batch)
    /\ LET a == batch[idx] IN
       \E o1 \in AssumeOutcomes(a, ORG_ACCESS_ROLE_NAME) :
          LET c1 == Call(a, "assume_role", ORG_ACCESS_ROLE_NAME, MGMT, o1)
              r1 == _check_role(o1)
          IN IF r1.raised
             THEN /\ calls' = calls \cup {c1}
                  /\ pcR' = "raised"
                  /\ UNCHANGED status
             ELSE \E o2 \in AssumeOutcomes(a, CT_EXECUTION_ROLE_NAME) :
                     LET c2 == Call(a, "assume_role", CT_EXECUTION_ROLE_NAME, MGMT, o2)
                         r2 == _check_role(o2)
                     IN /\ calls' = calls \cup {c1, c2}
                        /\ IF r2.raised
                           THEN pcR' = "raised" /\ UNCHANGED status
                           ELSE /\ status' = [org_access |-> r1.value,
                                              ct_execution |-> r2.value]
                                /\ pcR' = "decide"
    /\ UNCHANGED <<roles, dry_run, batch, idx, to_create, echo>>
    /\ RolesFrame

\* role_to_create = status.role_to_create(), inside try
Decide ==
    /\ pcR = "decide"
    /\ to_create' = role_to_create(status)
    /\ pcR' = "branch"
    /\ UNCHANGED <<roles, dry_run, batch, idx, status, calls, echo>>
    /\ RolesFrame

\* except ValueError: echo, continue / if role_to_create: ... else: ...
Branch ==
    /\ pcR = "branch"
    /\ LET b == BranchOutcome(to_create, dry_run) IN
       /\ IF b.msg = None THEN UNCHANGED echo
          ELSE echo' = echo \cup {[acct |-> batch[idx], msg |-> b.msg]}
       /\ IF b.pc = "next"
          THEN pcR' = "loop" /\ idx' = idx + 1
          ELSE pcR' = b.pc /\ UNCHANGED idx
    /\ UNCHANGED <<roles, dry_run, batch, status, to_create, calls>>
    /\ RolesFrame

\* create_admin_role_in_account: credentials = assume_role_and_get_credentials
CreateAssume ==
    /\ pcR = "create_assume"
    /\ LET a == batch[idx]
           r == BootstrapRole(to_create.value)
       IN \E o \in AssumeOutcomes(a, r) :
             /\ calls' = calls \cup {Call(a, "assume_role", r, MGMT, o)}
             /\ pcR' = IF o = "ok" THEN "create_get_role" ELSE "raised"
    /\ UNCHANGED <<roles, dry_run, batch, idx, status, to_create, echo>>
    /\ RolesFrame

\* create_admin_role_in_account: if iam.is_role_exists(role_to_create): return
CreateGetRole ==
    /\ pcR = "create_get_role"
    /\ LET a == batch[idx]
           r == to_create.value
           as == BootstrapRole(r)
       IN \E o \in GetRoleOutcomes(a, r) :
             LET ex == is_role_exists(o) IN
             /\ calls' = calls \cup {Call(a, "get_role", r, as, o)}
             /\ IF ex.raised THEN pcR' = "raised" /\ UNCHANGED idx
                ELSE IF ex.value THEN pcR' = "loop" /\ idx' = idx + 1
                ELSE pcR' = "create_role" /\ UNCHANGED idx
    /\ UNCHANGED <<roles, dry_run, batch, status, to_create, echo>>
    /\ RolesFrame

\* IAM.create_admin_role: client.create_role
CreateRole ==
    /\ pcR = "create_role"
    /\ LET a == batch[idx]
           r == to_create.value
           as == BootstrapRole(r)
       IN \E o \in CreateRoleOutcomes(a, r) :
             /\ calls' = calls \cup {Call(a, "create_role", r, as, o)}
             /\ IF o = "ok"
                THEN /\ roles' = [roles EXCEPT ![a] = @ \cup {r}]
                     /\ pcR' = "attach_policy"
                ELSE pcR' = "raised" /\ UNCHANGED roles
    /\ UNCHANGED <<dry_run, batch, idx, status, to_create, echo>>
    /\ RolesFrame

\* IAM.create_admin_role: client.attach_role_policy
AttachPolicy ==
    /\ pcR = "attach_policy"
    /\ LET a == batch[idx]
           r == to_create.value
           as == BootstrapRole(r)
       IN \E o \in AttachOutcomes :
             /\ calls' = calls \cup {Call(a, "attach_role_policy", r, as, o)}
             /\ IF o = "ok" THEN pcR' = "loop" /\ idx' = idx + 1
                ELSE pcR' = "raised" /\ UNCHANGED idx
    /\ UNCHANGED <<roles, dry_run, batch, status, to_create, echo>>
    /\ RolesFrame

\* the loop is over: if not dry_run: echo("All set!")
Finish ==
    /\ pcR = "loop"
    /\ idx > Len(batch)
    /\ echo' = IF ~dry_run THEN echo \cup {[acct |-> 0, msg |-> "all_set"]} ELSE echo
    /\ pcR' = "done"
    /\ UNCHANGED <<roles, dry_run, batch, idx, status, to_create, calls>>
    /\ RolesFrame

NextRoles ==
    \/ LoadAccounts
    \/ CheckRoles
    \/ Decide
    \/ Branch
    \/ CreateAssume
    \/ CreateGetRole
    \/ CreateRole
    \/ AttachPolicy
    \/ Finish

SpecRoles == InitRoles /\ [][NextRoles]_vars

-----------------------------------------------------------------------------
(* tools.py: Tools.try_to_assume_and_ask_to_create_role, its _v2, and        *)
(* main.py: Organizations.execute_on_account_in_org_root                    *)

\* the deepest call stack modelled; a call beyond it raises RecursionError
MaxDepth == 3

\* the account the operation is called on
tAcct == 1

NoId == -1
NoMove == [src |-> NoId, dst |-> NoId]

\* exceptions that are ClientError: the except clause of the try catches them
IsClientError(e) == e \in RemoteErrors \cup {"EntityAlreadyExists"}

\* a frame of fn ("v1": try_to_assume_and_ask_to_create_role, "v2": its _v2,
\* "exec": execute_on_account_in_org_root) called for role_name
NewFrame(fn, role) ==
    [fn |-> fn,
     role |-> role,
     pc |-> IF fn = "exec" THEN "lookup" ELSE "assume",
     parent_id |-> NoId,   \* parent_id = get_parent(account.id).id
     moved |-> NoId,       \* the parent the account was under when this call moved it
     back |-> NoMove,      \* the move-back this call issued
     e |-> None,           \* e of: except ClientError as e
     exc |-> None]         \* the exception in flight

Top == stack[Len(stack)]
SetTop(f) == stack' = [stack EXCEPT ![Len(stack)] = f]
TopIs(fns, pc) == stack # <<>> /\ Top.fn \in fns /\ Top.pc = pc

\* create_role_name / name_of_role_to_create: the other role
OtherRole(role_name) ==
    IF role_name = ORG_ACCESS_ROLE_NAME THEN CT_EXECUTION_ROLE_NAME
    ELSE ORG_ACCESS_ROLE_NAME

\* except ClientError as e: where the handler goes
OnClientError(e) ==
    IF ErrorCode(e) = "AccessDenied"
    THEN IF HasScpMessage(e) THEN [pc |-> "confirm_move", exc |-> None]
         ELSE [pc |-> "raise", exc |-> e]
    ELSE [pc |-> "return", exc |-> None]

\* an exception raised inside the try block
InTry(e) ==
    IF IsClientError(e) THEN OnClientError(e) ELSE [pc |-> "raise", exc |-> e]

Goto(f, t) == [f EXCEPT !.pc = t.pc, !.exc = t.exc]

\* the frame once err was raised inside its try block
Caught(f, err) ==
    [Goto(f, InTry(err)) EXCEPT !.e = IF IsClientError(err) THEN err ELSE @]
At(f, pc) == [f EXCEPT !.pc = pc]

\* the retried call raising with the account under the root, no handler
RetryResume_no_except(fn, res) ==
    IF res = "returned" THEN [pc |-> "move_back", exc |-> None]
    ELSE [pc |-> "raise", exc |-> res]

\* the call made with the account under the root has ended (res: "returned"
\* or the exception).  v1: try / except Exception: echo.  exec: try / except:
\* raise e / finally
RetryResume(fn, res) ==
    IF fn = "v1" THEN [pc |-> "move_back", exc |-> None]
    ELSE [pc |-> "move_back", exc |-> IF res = "returned" THEN None ELSE res]

\* after the move back (ok: it succeeded).  v1: return.  exec: the end of
\* finally, which raises the exception in flight again
AfterMoveBack(fn, exc, ok) ==
    IF ~ok THEN [pc |-> "raise", exc |-> "Other"]
    ELSE IF fn = "exec" /\ exc # None THEN [pc |-> "raise", exc |-> exc]
    ELSE [pc |-> "return", exc |-> None]

\* the caller frame c once its callee has ended with res
Resume(c, res) ==
    IF c.pc = "retry_wait" THEN Goto(c, RetryResume(c.fn, res))
    ELSE IF c.pc = "exec_wait"
         THEN IF res = "returned" THEN At(c, "swap")
              ELSE Goto(c, [pc |-> "raise", exc |-> res])
    ELSE \* swap_wait: the last statement of the function
         IF res = "returned" THEN At(c, "return")
         ELSE Goto(c, [pc |-> "raise", exc |-> res])

InitRetry ==
    /\ ouParent = [o \in OUs |-> Root]
    /\ \E p \in ParentIds : acctParent = [a \in Accounts |-> IF a = tAcct THEN p ELSE Root]
    /\ master = 1
    /\ \E S \in SUBSET RoleNames : roles = [a \in Accounts |-> IF a = tAcct THEN S ELSE {}]
    /\ \E fn \in {"v1", "v2"}, r \in RoleNames : stack = <<NewFrame(fn, r)>>
    /\ outcome = "running"
    /\ exits = {}
    /\ OrgIdle
    /\ dry_run = FALSE /\ pcR = "idle" /\ batch = <<>> /\ idx = 0
    /\ status = None /\ to_create = None /\ calls = {} /\ echo = {}
    /\ VpcIdle
    /\ AuxIdle

RetryKeep == UNCHANGED <<outcome, exits>> /\ RetryFrame

\* credentials = self.sts.assume_role_and_get_credentials(account.id, role_name)
TryAssume ==
    /\ TopIs({"v1", "v2"}, "assume")
    /\ \E o \in AssumeOutcomes(tAcct, Top.role) :
          SetTop(IF o = "ok" THEN At(Top, "get_role") ELSE Caught(Top, o))
    /\ UNCHANGED <<acctParent, roles>>
    /\ RetryKeep

\* if iam.is_role_exists(create_role_name): echo; return
TryGetRole ==
    /\ TopIs({"v1", "v2"}, "get_role")
    /\ \E o \in GetRoleOutcomes(tAcct, OtherRole(Top.role)) :
          LET ex == is_role_exists(o) IN
          SetTop(IF ex.raised THEN Caught(Top, o)
                 ELSE IF ex.value THEN At(Top, "return")
                 ELSE At(Top, "confirm_create"))
    /\ UNCHANGED <<acctParent, roles>>
    /\ RetryKeep

\* if click.confirm("Create role ..."): ... else: echo("You are a coward!")
TryConfirmCreate ==
    /\ TopIs({"v1", "v2"}, "confirm_create")
    /\ \E ans \in {"y", "n", "abort"} :
          SetTop(IF ans = "y" THEN At(Top, "create_role")
                 ELSE IF ans = "n" THEN At(Top, "return")
                 ELSE Caught(Top, "Abort"))
    /\ UNCHANGED <<acctParent, roles>>
    /\ RetryKeep

\* iam.create_admin_role: client.create_role
TryCreateRole ==
    /\ TopIs({"v1", "v2"}, "create_role")
    /\ LET r == OtherRole(Top.role) IN
       \E o \in CreateRoleOutcomes(tAcct, r) :
          IF o = "ok"
          THEN /\ roles' = [roles EXCEPT ![tAcct] = @ \cup {r}]
               /\ SetTop(At(Top, "attach_policy"))
          ELSE /\ UNCHANGED roles
               /\ SetTop(Caught(Top, o))
    /\ UNCHANGED acctParent
    /\ RetryKeep

\* iam.create_admin_role: client.attach_role_policy; echo("Done!")
TryAttachPolicy ==
    /\ TopIs({"v1", "v2"}, "attach_policy")
    /\ \E o \in AttachOutcomes :
          SetTop(IF o = "ok" THEN At(Top, "return") ELSE Caught(Top, o))
    /\ UNCHANGED <<acctParent, roles>>
    /\ RetryKeep

\* if click.confirm("Move account ... to the root and try again?")
TryConfirmMove ==
    /\ TopIs({"v1", "v2"}, "confirm_move")
    /\ \E ans \in {"y", "n", "abort"} :
          SetTop(IF ans = "y" THEN At(Top, IF Top.fn = "v1" THEN "lookup" ELSE "exec_call")
                 ELSE IF ans = "n" THEN At(Top, "swap")
                 ELSE Goto(Top, [pc |-> "raise", exc |-> "Abort"]))
    /\ UNCHANGED <<acctParent, roles>>
    /\ RetryKeep

\* parent_id = get_parent(account.id).id; root_id = get_root_id()
Lookup ==
    /\ TopIs({"v1", "exec"}, "lookup")
    /\ \/ SetTop([At(Top, "move_to_root") EXCEPT !.parent_id = acctParent[tAcct]])
       \/ SetTop(Goto(Top, [pc |-> "raise", exc |-> "Other"]))
    /\ UNCHANGED <<acctParent, roles>>
    /\ RetryKeep

\* move_account(account.id, parent_id, root_id): the remote moves the account
\* when it is under parent_id and parent_id is not the destination
MoveToRoot ==
    /\ TopIs({"v1", "exec"}, "move_to_root")
    /\ \/ /\ acctParent[tAcct] = Top.parent_id
          /\ Top.parent_id # Root
          /\ acctParent' = [acctParent EXCEPT ![tAcct] = Root]
          /\ SetTop([At(Top, "retry_call") EXCEPT !.moved = acctParent[tAcct]])
       \/ /\ UNCHANGED acctParent
          /\ SetTop(Goto(Top, [pc |-> "raise", exc |-> "Other"]))
    /\ UNCHANGED roles
    /\ RetryKeep

\* role_name, create_role_name = create_role_name, role_name
Swap ==
    /\ TopIs({"v1", "v2"}, "swap")
    /\ SetTop([At(Top, "swap_call") EXCEPT !.role = OtherRole(Top.role)])
    /\ UNCHANGED <<acctParent, roles>>
    /\ RetryKeep

WaitPc(pc) ==
    IF pc = "retry_call" THEN "retry_wait"
    ELSE IF pc = "swap_call" THEN "swap_wait"
    ELSE "exec_wait"

\* the three call sites: try_to_assume_and_ask_to_create_role(account,
\* role_name, ...) with the account under the root, the same after the swap,
\* and execute_on_account_in_org_root(account, action)
CallNext ==
    /\ stack # <<>>
    /\ Top.pc \in {"retry_call", "swap_call", "exec_call"}
    /\ LET waiting == At(Top, WaitPc(Top.pc))
           callee == NewFrame(IF Top.pc = "exec_call" THEN "exec" ELSE "v1", Top.role)
       IN IF Len(stack) < MaxDepth
          THEN stack' = [stack EXCEPT ![Len(stack)] = waiting] \o <<callee>>
          ELSE SetTop(Resume(waiting, "RecursionError"))
    /\ UNCHANGED <<acctParent, roles>>
    /\ RetryKeep

\* move_account(account.id, root_id, parent_id)
MoveBack ==
    /\ TopIs({"v1", "exec"}, "move_back")
    /\ LET issued == [Top EXCEPT !.back = [src |-> Root, dst |-> Top.parent_id]] IN
       \/ /\ acctParent[tAcct] = Root
          /\ Top.parent_id # Root
          /\ acctParent' = [acctParent EXCEPT ![tAcct] = Top.parent_id]
          /\ SetTop(Goto(issued, AfterMoveBack(Top.fn, Top.exc, TRUE)))
       \/ /\ UNCHANGED acctParent
          /\ SetTop(Goto(issued, AfterMoveBack(Top.fn, Top.exc, FALSE)))
    /\ UNCHANGED roles
    /\ RetryKeep

\* the call on top of the stack ends with res; its caller goes on
Pop(res) ==
    LET rest == SubSeq(stack, 1, Len(stack) - 1) IN
    /\ exits' = exits \cup {[fn |-> Top.fn, moved |-> Top.moved, back |-> Top.back,
                            e |-> Top.e, how |-> res]}
    /\ IF rest = <<>>
       THEN stack' = <<>> /\ outcome' = res
       ELSE /\ stack' = [rest EXCEPT ![Len(rest)] = Resume(rest[Len(rest)], res)]
            /\ UNCHANGED outcome

Return ==
    /\ stack # <<>>
    /\ Top.pc = "return"
    /\ Pop("returned")
    /\ UNCHANGED <<acctParent, roles>>
    /\ RetryFrame

Raise ==
    /\ stack # <<>>
    /\ Top.pc = "raise"
    /\ Pop(Top.exc)
    /\ UNCHANGED <<acctParent, roles>>
    /\ RetryFrame

NextRetry ==
    \/ TryAssume
    \/ TryGetRole
    \/ TryConfirmCreate
    \/ TryCreateRole
    \/ TryAttachPolicy
    \/ TryConfirmMove
    \/ Lookup
    \/ MoveToRoot
    \/ Swap
    \/ CallNext
    \/ MoveBack
    \/ Return
    \/ Raise

SpecRetry == InitRetry /\ [][NextRetry]_vars

-----------------------------------------------------------------------------
(* vpc.py: _process_region_for_account, _process_account, process_vpcs *)

MaxRegions == 2
MaxWorkers == 2
MaxVpcs == 2

Regions == 1..MaxRegions

\* a VPC of a region as the loop sees it: vpc.is_default, and whether the
\* listing of its network interfaces is non-empty
VpcKinds == [is_default : BOOLEAN, has_enis : BOOLEAN]
VpcLists == UNION {[1..n -> VpcKinds] : n \in 0..MaxVpcs}

DeleteOps == {"delete_subnet", "detach_internet_gateway",
              "delete_internet_gateway", "delete_vpc"}

\* the loop body without its test of destructive
VpcOps_no_dry_run(v, destructive) ==
    IF ~v.is_default THEN <<>>
    ELSE <<"list_enis">> \o
         (IF v.has_enis THEN <<>>
          ELSE <<"delete_subnet", "detach_internet_gateway",
                 "delete_internet_gateway", "delete_vpc">>)

\* the loop body without its test of the ENI listing
VpcOps_no_eni_guard(v, destructive) ==
    IF ~v.is_default THEN <<>>
    ELSE IF ~destructive THEN <<>>
    ELSE <<"list_enis", "delete_subnet", "detach_internet_gateway",
           "delete_internet_gateway", "delete_vpc">>

\* the remote calls the loop body makes for one VPC (which has one subnet
\* and one internet gateway), in order, when none of them raises
VpcOps(v, destructive) ==
    IF ~v.is_default THEN <<>>
    ELSE IF ~destructive THEN <<>>
    ELSE <<"list_enis">> \o
         (IF v.has_enis THEN <<>>
          ELSE <<"delete_subnet", "detach_internet_gateway",
                 "delete_internet_gateway", "delete_vpc">>)

\* the calls of _process_region_for_account over the VPCs of the region:
\* ec2_resource.vpcs.all(), then every VPC's calls
RegionOps(vpcs, destructive) ==
    <<[vpc |-> 0, op |-> "list_vpcs"]>> \o
    Concat([i \in 1..Len(vpcs) |->
               LET ops == VpcOps(vpcs[i], destructive)
               IN [j \in 1..Len(ops) |-> [vpc |-> i, op |-> ops[j]]]])

\* the call that raises: 0 when none does
FailPoints == 0..(1 + 5 * MaxVpcs)

\* _process_region_for_account(account_id, boto_session, region, destructive)
\* when its failAt-th remote call raises: the delete and detach calls it
\* issued, whether it echoed "[DRY-RUN] Would delete default VPC", whether
\* it echoed "still has ENIs", and whether it raised
_process_region_for_account(vpcs, destructive, failAt) ==
    LET ops == RegionOps(vpcs, destructive)
        n == IF failAt = 0 \/ failAt > Len(ops) THEN Len(ops) ELSE failAt
    IN [issued |-> {[is_default |-> vpcs[ops[i].vpc].is_default,
                     has_enis |-> vpcs[ops[i].vpc].has_enis,
                     op |-> ops[i].op] : i \in {j \in 1..n : ops[j].op \in DeleteOps}},
        would_delete |-> /\ ~destructive
                         /\ failAt # 1
                         /\ \E i \in 1..Len(vpcs) : vpcs[i].is_default,
        still_has_enis |-> \E i \in 1..n :
                              /\ ops[i].op = "list_enis"
                              /\ failAt # i
                              /\ vpcs[ops[i].vpc].has_enis,
        calls |-> SubSeq(ops, 1, n),
        raised |-> failAt \in 1..Len(ops)]

\* what the fan-out sees of one run of a region unit
RunSummary(run) ==
    [issued |-> run.issued, would_delete |-> run.would_delete, raised |-> run.raised]

\* every way one region unit can run
RegionRuns(destructive) ==
    {RunSummary(_process_region_for_account(vpcs, destructive, k)) :
        vpcs \in VpcLists, k \in FailPoints}

RegionRunsForce == RegionRuns(TRUE)
RegionRunsDryRun == RegionRuns(FALSE)

\* destructive=force, handed from process_vpcs through _process_account to
\* every region unit
Destructive(f) == f

\* ThreadPoolExecutor(max_workers=n): submit starts a worker thread while
\* fewer than n exist, so a unit starts when fewer than n are running
WorkerFree(running, n) == running < n

\* the units of a pool that hold a worker thread: an account unit holds its
\* thread while it waits for its region pool
Busy(st) == Cardinality({i \in DOMAIN st : st[i] \in {"running", "fanout"}})

\* the worker threads of a pool take the queued units in submission order:
\* at submission, and when a thread has finished a unit
Dispatch(st, n) ==
    [i \in DOMAIN st |->
        IF /\ st[i] = "queued"
           /\ WorkerFree(Busy(st) + Cardinality({j \in DOMAIN st : j < i /\ st[j] = "queued"}), n)
        THEN "running"
        ELSE st[i]]

\* leaving the with block as soon as one future is done
PoolDrained_first(states) == \E st \in states : st \in {"ok", "err", "done"}

\* the end of the with ThreadPoolExecutor block: as_completed has yielded
\* every future and shutdown(wait=True) has joined the workers
PoolDrained(states) == \A st \in states : st \in {"ok", "err", "done", "none"}

\* the as_completed loop without its try / except
CollectRegions_no_except(failed) == IF failed THEN "err" ELSE "ok"

\* _process_account: for fut in as_completed(futures): try: fut.result()
\* except Exception: echo.  How the account unit ends
CollectRegions(failed) == "ok"

\* the as_completed loop of process_vpcs without its try / except
CollectAccounts_no_except(accountStates) ==
    IF "err" \in accountStates THEN "raised" ELSE "finished"

\* process_vpcs: for fut in as_completed(acc_futures): try: fut.result()
\* except Exception: echo.  How process_vpcs ends
CollectAccounts(accountStates) == "finished"

InitVpc ==
    /\ ouParent = [o \in OUs |-> Root]
    /\ acctParent = [a \in Accounts |-> 1]
    /\ master = 1
    /\ force \in BOOLEAN
    /\ workers \in 1..MaxWorkers
    /\ pcMain = "start"
    /\ aState = [a \in Accounts |-> "none"]
    /\ rState = [a \in Accounts |-> [r \in Regions |-> "none"]]
    /\ rFailed = [a \in Accounts |-> FALSE]
    /\ deleteCalls = {}
    /\ reported = {}
    /\ OrgIdle
    /\ RolesIdle
    /\ RetryIdle
    /\ AuxIdle

\* tools = Tools(session); get_caller_identity; get_root_id;
\* get_org_structure; all_accounts: any of the calls may raise
SetupFails ==
    /\ pcMain = "start"
    /\ pcMain' = "setup_raised"
    /\ deleteCalls' = {}
    /\ reported' = {}
    /\ UNCHANGED <<force, workers, aState, rState, rFailed>>
    /\ VpcFrame

\* acc_futures = [acc_pool.submit(_process_account, acct, ...) for acct in accounts]
SubmitAccounts ==
    /\ pcMain = "start"
    /\ LET accounts == all_accounts(get_org_structure(Root)) IN
       aState' = Dispatch([a \in Accounts |->
                     IF \E i \in 1..Len(accounts) : accounts[i] = a THEN "queued" ELSE "none"],
                          workers)
    /\ pcMain' = "submitted"
    /\ deleteCalls' = {}
    /\ reported' = {}
    /\ UNCHANGED <<force, workers, rState, rFailed>>
    /\ VpcFrame

Report(a, what) == [acct |-> a, what |-> what]

\* the module-level session of .aws, which Tools(session) is built on
GlobalSession == 0

\* _boto_session_for_account: the module-level session for the management
\* account, else a new Session from the credentials of the assumed role
\* (named after the account)
_boto_session_for_account(a) == IF a = master THEN GlobalSession ELSE a

\* reg_pool.submit(_process_region_for_account, account.id, boto_sess,
\* region, destructive): the session the region unit works with
RegionSession(a, r) == _boto_session_for_account(a)

\* _process_account up to the submission of the region units:
\* _boto_session_for_account, boto_sess.client("ec2"), get_all_regions_names
PrepareAccount(a) ==
    /\ aState[a] = "running"
    /\ \/ \* the role cannot be assumed: echoed, return
          /\ a # master
          /\ aState' = Dispatch([aState EXCEPT ![a] = "ok"], workers)
          /\ reported' = {Report(a, "cant_assume")}
          /\ UNCHANGED rState
       \/ \* describe_regions raises ClientError or BotoCoreError: echoed, return
          /\ aState' = Dispatch([aState EXCEPT ![a] = "ok"], workers)
          /\ reported' = {Report(a, "regions_failed")}
          /\ UNCHANGED rState
       \/ \* any other exception leaves _process_account
          /\ aState' = Dispatch([aState EXCEPT ![a] = "err"], workers)
          /\ reported' = {}
          /\ UNCHANGED rState
       \/ \* futures = [reg_pool.submit(...) for region in regions]
          /\ rState' = [rState EXCEPT ![a] = Dispatch([r \in Regions |-> "queued"], workers)]
          /\ aState' = [aState EXCEPT ![a] = "fanout"]
          /\ reported' = {}
    /\ deleteCalls' = {}
    /\ UNCHANGED <<force, workers, pcMain, rFailed>>
    /\ VpcFrame

\* _process_region_for_account runs to its end or to the call that raises
RunRegion(a, r) ==
    /\ rState[a][r] = "running"
    /\ \E run \in (IF Destructive(force) THEN RegionRunsForce ELSE RegionRunsDryRun) :
          /\ deleteCalls' = run.issued
          /\ reported' = IF run.would_delete THEN {Report(a, "would_delete")} ELSE {}
          /\ rFailed' = [rFailed EXCEPT ![a] = @ \/ run.raised]
    /\ rState' = [rState EXCEPT ![a] = Dispatch([@ EXCEPT ![r] = "done"], workers)]
    /\ UNCHANGED <<force, workers, pcMain, aState>>
    /\ VpcFrame

\* the as_completed loop and the end of the with block of _process_account:
\* a failed region unit is echoed with the account id; the pool and its
\* futures are gone when the function returns
JoinAccount(a) ==
    /\ aState[a] = "fanout"
    /\ PoolDrained({rState[a][r] : r \in Regions})
    /\ LET how == CollectRegions(rFailed[a]) IN
       /\ aState' = Dispatch([aState EXCEPT ![a] = how], workers)
       /\ reported' = IF how = "ok" /\ rFailed[a]
                      THEN {Report(a, "region_error")}
                      ELSE {}
    /\ rState' = [rState EXCEPT ![a] = [r \in Regions |-> "none"]]
    /\ rFailed' = [rFailed EXCEPT ![a] = FALSE]
    /\ deleteCalls' = {}
    /\ UNCHANGED <<force, workers, pcMain>>
    /\ VpcFrame

\* the as_completed loop and the end of the with block of process_vpcs;
\* echo("Finished default-VPC cleanup.")
JoinMain ==
    /\ pcMain = "submitted"
    /\ PoolDrained({aState[a] : a \in Accounts})
    /\ LET how == CollectAccounts({aState[a] : a \in Accounts}) IN
       /\ pcMain' = how
       /\ reported' = IF how = "finished"
                      THEN {Report(a, "account_error") : a \in {b \in Accounts : aState[b] = "err"}}
                      ELSE {}
    /\ deleteCalls' = {}
    /\ UNCHANGED <<force, workers, aState, rState, rFailed>>
    /\ VpcFrame

NextVpc ==
    \/ SetupFails
    \/ SubmitAccounts
    \/ \E a \in Accounts : PrepareAccount(a)
    \/ \E a \in Accounts, r \in Regions : RunRegion(a, r)
    \/ \E a \in Accounts : JoinAccount(a)
    \/ JoinMain

SpecVpc == InitVpc /\ [][NextVpc]_vars

\* the worker threads are scheduled fairly and every remote call answers
FairSpecVpc == SpecVpc /\ WF_vars(NextVpc)

-----------------------------------------------------------------------------
(* vpc.py: _process_region_for_account as one unit *)

\* the region unit is about to run on the VPCs the region holds
InitRegion ==
    /\ \E vpcs \in VpcLists, d \in BOOLEAN, k \in FailPoints :
          regionIn = [vpcs |-> vpcs, destructive |-> d, failAt |-> k]
    /\ regionOut = <<>>
    /\ MainIdle
    /\ TaggerIdle
    /\ FlattenIdle
    /\ PagingIdle
    /\ SsoIdle
    /\ BackendIdle
    /\ BaselineIdle
    /\ LastIdle

\* _process_region_for_account(account_id, boto_session, region, destructive)
ProcessRegion ==
    /\ regionOut = <<>>
    /\ regionOut' = <<_process_region_for_account(regionIn.vpcs, regionIn.destructive,
                                                  regionIn.failAt)>>
    /\ UNCHANGED regionIn
    /\ RegionFrame

NextRegion == ProcessRegion

SpecRegion == InitRegion /\ [][NextRegion]_vars

-----------------------------------------------------------------------------
(* cross_account_vpc_tagger.py: copy_vpc_subnet_tags_using_ram,              *)
(* copy_vpc_subnet_tags_cross_account and the functions they call           *)

MaxNetAccounts == 2
MaxTargets == 2
MaxSubnets == 2

NetAccounts == 1..MaxNetAccounts
\* the workloads accounts come after the networking accounts
Targets == (MaxNetAccounts + 1)..(MaxNetAccounts + MaxTargets)
Subnets == 1..MaxSubnets
VpcRes == 0

\* a subnet of another VPC of the networking account, shared through the
\* same resource shares
OtherVpcSubnet == MaxSubnets + 1
RamSubnets == Subnets \cup {OtherVpcSubnet}

\* the status of a subnet's resource association; none: not in any share
AssocStatus == {"none", "ASSOCIATED", "DISASSOCIATED"}
NoShares == [sn \in RamSubnets |-> "none"]

\* get_shared_subnets_from_ram without its test of the status
get_shared_subnets_from_ram_any_status(vpc_subnets, assoc) ==
    {sn \in DOMAIN assoc : assoc[sn] # "none" /\ sn \in vpc_subnets}

\* get_shared_subnets_from_ram(session, vpc_id, region): the associated
\* entities of the account's resource shares that are subnets of the VPC
\* and whose association has status ASSOCIATED
get_shared_subnets_from_ram(vpc_subnets, assoc) ==
    {sn \in DOMAIN assoc :
        assoc[sn] # "none" /\ sn \in vpc_subnets /\ assoc[sn] = "ASSOCIATED"}

\* the region argument: missing, empty, blank, or a region name
RegionArgs == {None, "", " ", "us-east-1"}

\* str.strip on the region arguments
Strip(str) == IF str = " " THEN "" ELSE str

\* the truth value Python gives a str or None
Truthy(str) == str \notin {None, ""}

TagCall(op, acct, res) == [op |-> op, acct |-> acct, res |-> res]

\* apply_tags_to_vpc that calls create_tags whatever dry_run is
apply_tags_to_vpc_no_dry_run(target, dry, fails) ==
    [calls |-> {TagCall("create_tags", target, VpcRes)},
     tagged |-> ~fails,
     value |-> ~fails]

\* apply_tags_to_vpc(vpc_id, tags, ec2_client, dry_run): create_tags may
\* raise ClientError or BotoCoreError, which it turns into False
apply_tags_to_vpc(target, dry, fails) ==
    IF dry
    THEN [calls |-> {}, tagged |-> FALSE, value |-> TRUE]
    ELSE [calls |-> {TagCall("create_tags", target, VpcRes)},
          tagged |-> ~fails,
          value |-> ~fails]

\* what the remote may answer to copy_vpc_name_tag_cross_account
NameRemote == {"net_assume_fails", "no_name_tag", "target_assume_fails", "create_fails", "ok"}

\* copy_vpc_name_tag_cross_account(networking_account_id,
\* workloads_account_id, vpc_id, region, role_name, dry_run)
copy_vpc_name_tag_cross_account(net, target, dry, remote) ==
    LET c1 == {TagCall("assume_role", net, 0)}
        c2 == c1 \cup {TagCall("describe_vpcs", net, VpcRes)}
        c3 == c2 \cup {TagCall("assume_role", target, 0)}
    IN IF remote = "net_assume_fails" THEN [calls |-> c1, tagged |-> FALSE, value |-> FALSE]
       ELSE IF remote = "no_name_tag" THEN [calls |-> c2, tagged |-> FALSE, value |-> FALSE]
       ELSE IF remote = "target_assume_fails" THEN [calls |-> c3, tagged |-> FALSE, value |-> FALSE]
       ELSE LET ap == apply_tags_to_vpc(target, dry, remote = "create_fails")
            IN [calls |-> c3 \cup ap.calls, tagged |-> ap.tagged, value |-> ap.value]

\* the loop body of apply_subnet_tags_to_workloads_account without its test
\* of dry_run
SubnetApply_no_dry_run(target, sn, dry, found, fails) ==
    IF ~found THEN [calls |-> {}, ok |-> FALSE]
    ELSE [calls |-> {TagCall("create_tags", target, sn)}, ok |-> ~fails]

\* the loop body of apply_subnet_tags_to_workloads_account for one subnet id:
\* not among the subnets of the workloads account, or without availability
\* zone: False; dry_run: print, True; else apply_tags_to_subnet, which
\* turns an error of create_tags into False
SubnetApply(target, sn, dry, found, fails) ==
    IF ~found THEN [calls |-> {}, ok |-> FALSE]
    ELSE IF dry THEN [calls |-> {}, ok |-> TRUE]
    ELSE [calls |-> {TagCall("create_tags", target, sn)}, ok |-> ~fails]

\* if not region or not region.strip(): raise ValueError
\* if networking_account_ids: ... else: print("ERROR: ..."); return {}
Validate(region, ids) ==
    IF ~Truthy(region) \/ ~Truthy(Strip(region)) THEN "ValueError"
    ELSE IF ids = <<>> THEN "returned"
    ELSE "ok"

IdLists == {[i \in 1..n |-> i] : n \in 0..MaxNetAccounts}

\* the workloads account of copy_vpc_subnet_tags_cross_account
Workloads == MaxNetAccounts + 1

InitTagger ==
    /\ \E e \in {"using_ram", "cross_account"}, rg \in RegionArgs, ids \in IdLists, d \in BOOLEAN :
          /\ e = "cross_account" => (ids = <<1>> /\ rg = "us-east-1")
          /\ tagIn = [entry |-> e, region |-> rg, ids |-> ids, dry_run |-> d]
    /\ tagPc = "start"
    /\ tagI = 0
    /\ tagTodo = <<>>
    /\ tagShared = {}
    /\ tagLeft = <<>>
    /\ tagCalls = {}
    /\ tagged = {}
    /\ tagResult = {}
    /\ tagRemote = FALSE
    /\ tagOut = "running"
    /\ tagAssoc = NoShares
    /\ tagSeen = FALSE
    /\ tagAll = {}
    /\ tagFailed = {}
    /\ tagEcho = ""
    /\ MainIdle
    /\ RegionIdle
    /\ FlattenIdle
    /\ PagingIdle
    /\ SsoIdle
    /\ BackendIdle
    /\ BaselineIdle
    /\ LastIdle

\* a step that issues the calls cs and records the results rs; an
\* operation on a resource gives it tags when it called create_tags for it
\* and the call succeeded
IssueSeen(cs, rs, seen) ==
    /\ tagSeen' = seen
    /\ tagCalls' = cs
    /\ tagResult' = rs
    /\ tagged' = {[acct |-> r.acct, res |-> r.res] :
                    r \in {x \in rs : x.ok /\ TagCall("create_tags", x.acct, x.res) \in cs}}
    /\ tagRemote' = (tagRemote \/ cs # {})

Issue(cs, rs) == IssueSeen(cs, rs, FALSE)

\* a step in which no exception reaches the loop body of a networking account
NoFailure ==
    /\ UNCHANGED tagFailed
    /\ tagEcho' = ""

\* the end of the entry function
EndTagging(out) ==
    /\ tagPc' = "done"
    /\ tagOut' = out
    /\ tagTodo' = <<>>
    /\ tagShared' = {}
    /\ tagLeft' = <<>>
    /\ UNCHANGED tagI

\* the loop body of a networking account without its except clause: the
\* exception leaves the entry function
OnTagError_no_except ==
    /\ tagFailed' = tagFailed \cup {tagI}
    /\ tagAssoc' = NoShares
    /\ UNCHANGED tagAll
    /\ tagEcho' = ""
    /\ EndTagging("ClientError")

\* an exception in the loop body of a networking account.  using_ram:
\* except Exception: print; continue.  cross_account: nothing catches it
OnTagError ==
    /\ tagFailed' = tagFailed \cup {tagI}
    /\ tagAssoc' = NoShares
    /\ UNCHANGED tagAll
    /\ tagEcho' = IF tagIn.entry = "using_ram"
                  THEN "Error processing networking account" ELSE ""
    /\ IF tagIn.entry = "using_ram"
       THEN /\ tagPc' = "net"
            /\ tagI' = tagI + 1
            /\ tagTodo' = <<>>
            /\ tagShared' = {}
            /\ tagLeft' = <<>>
            /\ UNCHANGED tagOut
       ELSE EndTagging("ClientError")

\* the target account is done: all_results[account_vpc_key] =
\* subnet_results; then the next one, or the next networking account
NextTarget ==
    /\ tagAll' = tagAll \cup {tagI}
    /\ NoFailure
    /\ IF Len(tagTodo) > 1
       THEN /\ tagPc' = IF tagIn.entry = "using_ram" THEN "name" ELSE "subnets"
            /\ tagTodo' = Tail(tagTodo)
            /\ tagLeft' = <<>>
            /\ UNCHANGED <<tagI, tagShared, tagOut, tagAssoc>>
       ELSE IF tagIn.entry = "using_ram"
       THEN /\ tagPc' = "net"
            /\ tagI' = tagI + 1
            /\ tagTodo' = <<>>
            /\ tagShared' = {}
            /\ tagLeft' = <<>>
            /\ tagAssoc' = NoShares
            /\ UNCHANGED tagOut
       ELSE /\ EndTagging("returned")
            /\ UNCHANGED tagAssoc

\* copy_vpc_subnet_tags_using_ram up to its loop: the prints and the
\* validation of the arguments
ValidateInputs ==
    /\ tagPc = "start"
    /\ tagIn.entry = "using_ram"
    /\ LET v == Validate(tagIn.region, tagIn.ids) IN
       IF v = "ok"
       THEN /\ tagPc' = "net"
            /\ tagI' = 1
            /\ UNCHANGED <<tagOut, tagTodo, tagShared, tagLeft>>
       ELSE EndTagging(v)
    /\ Issue({}, {})
    /\ UNCHANGED <<tagIn, tagAssoc, tagAll>>
    /\ NoFailure
    /\ TaggerFrame

\* the loop body of copy_vpc_subnet_tags_using_ram for one networking
\* account up to its loop over the target accounts: assume_role,
\* get_vpc_id_by_name or get_all_vpcs_with_shared_subnets,
\* get_shared_subnets_from_ram, get_target_accounts_from_ram_shares,
\* extract_subnet_tags_from_networking_account
DiscoverShares ==
    /\ tagPc = "net"
    /\ tagI <= Len(tagIn.ids)
    /\ LET net == tagIn.ids[tagI]
           c1 == {TagCall("assume_role", net, 0)}
           c2 == c1 \cup {TagCall("describe_vpcs", net, VpcRes)}
           c3 == c2 \cup {TagCall("ram", net, 0)}
           c4 == c3 \cup {TagCall("describe_subnets", net, VpcRes)}
       IN \/ \* assume_role raises
             /\ Issue(c1, {})
             /\ OnTagError
          \/ \* get_vpc_id_by_name raises: describe_vpcs fails, or no VPC has
             \* the name (IndexError)
             /\ Issue(c2, {})
             /\ OnTagError
          \/ \* no shared subnets or no target accounts: continue
             /\ Issue(c3, {})
             /\ tagI' = tagI + 1
             /\ UNCHANGED <<tagPc, tagTodo, tagShared, tagLeft, tagOut, tagAssoc, tagAll>>
             /\ NoFailure
          \/ \E ramStatus \in [Subnets -> AssocStatus], targets \in SUBSET Targets,
                withTags \in SUBSET Subnets :
                LET assoc == [sn \in RamSubnets |->
                                 IF sn = OtherVpcSubnet THEN "ASSOCIATED" ELSE ramStatus[sn]]
                    shared == get_shared_subnets_from_ram(Subnets, assoc)
                IN /\ shared # {}
                   /\ targets # {}
                   /\ Issue(c4, {})
                   /\ UNCHANGED <<tagAll>>
                   /\ NoFailure
                   /\ IF withTags = {}
                      THEN \* no valid subnet tags: continue
                           /\ tagI' = tagI + 1
                           /\ UNCHANGED <<tagPc, tagTodo, tagShared, tagLeft, tagOut, tagAssoc>>
                      ELSE /\ tagPc' = "name"
                           /\ tagTodo' = SortedSeq(targets)
                           /\ tagShared' = withTags \cap shared
                           /\ tagAssoc' = assoc
                           /\ UNCHANGED <<tagI, tagLeft, tagOut>>
    /\ UNCHANGED tagIn
    /\ TaggerFrame

\* copy_vpc_subnet_tags_cross_account up to the copy of the Name tag:
\* assume_role and get_vpc_id_by_name
CrossStart ==
    /\ tagPc = "start"
    /\ tagIn.entry = "cross_account"
    /\ LET net == tagIn.ids[1] IN
       \/ /\ Issue({TagCall("assume_role", net, 0)}, {})
          /\ OnTagError
       \/ /\ Issue({TagCall("assume_role", net, 0), TagCall("describe_vpcs", net, VpcRes)}, {})
          /\ tagPc' = "name"
          /\ tagI' = 1
          /\ tagTodo' = <<Workloads>>
          /\ UNCHANGED <<tagShared, tagLeft, tagOut, tagAssoc, tagAll>>
          /\ NoFailure
    /\ UNCHANGED tagIn
    /\ TaggerFrame

\* vpc_success = copy_vpc_name_tag_cross_account(..., dry_run=dry_run)
CopyNameTag ==
    /\ tagPc = "name"
    /\ \E remote \in NameRemote :
          LET nm == copy_vpc_name_tag_cross_account(tagIn.ids[tagI], Head(tagTodo),
                                                    tagIn.dry_run, remote)
          IN Issue(nm.calls, {[acct |-> Head(tagTodo), res |-> VpcRes, ok |-> nm.value]})
    /\ tagPc' = IF tagIn.entry = "using_ram" THEN "subnets" ELSE "extract"
    /\ UNCHANGED <<tagIn, tagI, tagTodo, tagShared, tagLeft, tagOut, tagAssoc, tagAll>>
    /\ NoFailure
    /\ TaggerFrame

\* copy_vpc_subnet_tags_cross_account: subnet_tags =
\* extract_subnet_tags_from_networking_account(...); if not subnet_tags: return {}
ExtractCross ==
    /\ tagPc = "extract"
    /\ LET net == tagIn.ids[tagI]
           c1 == {TagCall("assume_role", net, 0)}
           c2 == c1 \cup {TagCall("describe_subnets", net, VpcRes)}
       IN \/ /\ Issue(c1, {})
             /\ OnTagError
          \/ \E withTags \in SUBSET Subnets :
                /\ Issue(c2, {})
                /\ UNCHANGED <<tagAssoc, tagAll>>
                /\ NoFailure
                /\ IF withTags = {}
                   THEN EndTagging("returned")
                   ELSE /\ tagPc' = "subnets"
                        /\ tagShared' = withTags
                        /\ UNCHANGED <<tagI, tagTodo, tagLeft, tagOut>>
    /\ UNCHANGED tagIn
    /\ TaggerFrame

\* apply_subnet_tags_to_workloads_account up to its loop: assume_role,
\* which may raise; get_subnets_by_vpc_id; if not subnets: return {}
OpenSubnets ==
    /\ tagPc = "subnets"
    /\ LET target == Head(tagTodo)
           c1 == {TagCall("assume_role", target, 0)}
           c2 == c1 \cup {TagCall("describe_subnets", target, VpcRes)}
       IN \/ /\ Issue(c1, {})
             /\ OnTagError
          \/ \* describe_subnets fails or returns no subnet
             /\ Issue(c2, {})
             /\ NextTarget
          \/ /\ Issue(c2, {})
             /\ IF tagShared = {}
                THEN NextTarget
                ELSE /\ tagPc' = "subnet"
                     /\ tagLeft' = SortedSeq(tagShared)
                     /\ UNCHANGED <<tagI, tagTodo, tagShared, tagOut, tagAssoc, tagAll>>
                     /\ NoFailure
    /\ UNCHANGED tagIn
    /\ TaggerFrame

\* one turn of: for subnet_id, tags in subnet_tags.items()
TagSubnet ==
    /\ tagPc = "subnet"
    /\ LET target == Head(tagTodo)
           sn == Head(tagLeft)
       IN \* subnet_id in workloads_subnet_ids; its AvailabilityZone is set;
          \* create_tags raises
          \E inView \in BOOLEAN, hasAz \in BOOLEAN, fails \in BOOLEAN :
             LET ap == SubnetApply(target, sn, tagIn.dry_run, inView /\ hasAz, fails)
             IN IssueSeen(ap.calls, {[acct |-> target, res |-> sn, ok |-> ap.ok]}, inView)
    /\ IF Len(tagLeft) > 1
       THEN /\ tagLeft' = Tail(tagLeft)
            /\ UNCHANGED <<tagPc, tagI, tagTodo, tagShared, tagOut, tagAssoc, tagAll>>
            /\ NoFailure
       ELSE NextTarget
    /\ UNCHANGED tagIn
    /\ TaggerFrame

\* the end of the loop over the networking accounts: the overall summary;
\* return all_results
FinishTagging ==
    /\ tagPc = "net"
    /\ tagI > Len(tagIn.ids)
    /\ EndTagging("returned")
    /\ Issue({}, {})
    /\ UNCHANGED <<tagIn, tagAssoc, tagAll>>
    /\ NoFailure
    /\ TaggerFrame

NextTagger ==
    \/ ValidateInputs
    \/ DiscoverShares
    \/ CrossStart
    \/ CopyNameTag
    \/ ExtractCross
    \/ OpenSubnets
    \/ TagSubnet
    \/ FinishTagging

SpecTagger == InitTagger /\ [][NextTagger]_vars

-----------------------------------------------------------------------------
(* The paginated list operations: main.py Organizations.list_accounts and   *)
(* list_ous, backend.py list_active_accounts,                               *)
(* generate_sso_profiles_config.py main                                     *)

MaxPages == 2
MaxPageItems == 1

ListOps == {"list_accounts", "list_ous", "list_active_accounts", "sso"}

\* an item of a page: its Id and whether its Status is ACTIVE
PageItems == [id : {1, 2}, active : BOOLEAN]
Pages == UNION {[1..n -> PageItems] : n \in 0..MaxPageItems}
PageLists == UNION {[1..n -> Pages] : n \in 1..MaxPages}

NoToken == 0

\* the remote's answer to a request with the continuation token t (none:
\* the first page): the page, and NextToken when more pages follow
Response(pages, t) ==
    LET k == IF t = NoToken THEN 1 ELSE t
    IN [items |-> pages[k],
        NextToken |-> IF k < Len(pages) THEN k + 1 ELSE NoToken]

RECURSIVE Filter(_, _)
Filter(items, op) ==
    IF items = <<>> THEN <<>>
    ELSE (IF op = "list_active_accounts" /\ ~Head(items).active THEN <<>> ELSE <<Head(items)>>)
         \o Filter(Tail(items), op)

\* what the loop body appends for one page.  list_accounts, list_ous: every
\* item; list_active_accounts: the items whose Status is ACTIVE; sso:
\* accounts.extend(response["Accounts"])
PageAppend(op, items) == Filter(items, op)

\* a loop that stops after the first response
MorePages_never(token) == FALSE

\* sso: next_token = response.get("NextToken"); if not next_token: break.
\* The paginator of the other three goes on while the response holds a
\* continuation token
MorePages(token) == token # NoToken

InitPaging ==
    /\ pgOp \in ListOps
    /\ pgPages \in PageLists
    /\ pgPc = "loop"
    /\ next_token = NoToken
    /\ pgAccounts = <<>>
    /\ pgRequests = <<>>
    /\ pgOut = <<>>
    /\ MainIdle
    /\ RegionIdle
    /\ TaggerIdle
    /\ FlattenIdle
    /\ SsoIdle
    /\ BackendIdle
    /\ BaselineIdle
    /\ LastIdle

\* one turn of the loop: the request, the append, the test of the token
RequestPage ==
    /\ pgPc = "loop"
    /\ LET response == Response(pgPages, next_token) IN
       /\ pgRequests' = Append(pgRequests, IF next_token = NoToken THEN 1 ELSE next_token)
       /\ pgAccounts' = pgAccounts \o PageAppend(pgOp, response.items)
       /\ next_token' = response.NextToken
       /\ pgPc' = IF MorePages(response.NextToken) THEN "loop" ELSE "return"
    /\ UNCHANGED <<pgOp, pgPages, pgOut>>
    /\ PagingFrame

\* return accounts (sso: the list the profile loop then reads)
ReturnList ==
    /\ pgPc = "return"
    /\ pgOut' = <<pgAccounts>>
    /\ pgPc' = "done"
    /\ UNCHANGED <<pgOp, pgPages, next_token, pgAccounts, pgRequests>>
    /\ PagingFrame

NextPaging == RequestPage \/ ReturnList

SpecPaging == InitPaging /\ [][NextPaging]_vars

-----------------------------------------------------------------------------
(* generate_sso_profiles_config.py: main, the profile blocks *)

MaxNameLen == 2
MaxSsoAccounts == 2

\* the characters of an account name: an upper-case letter, a lower-case
\* letter, a space
NameChars == {"D", "e", " "}
Names == UNION {[1..n -> NameChars] : n \in 1..MaxNameLen}

\* permission_set_names: one name, or more than one
PsetLists == {<<"AdministratorAccess">>, <<"AdministratorAccess", "ReadOnlyAccess">>}

\* str.lower()
Lower(str) == [k \in 1..Len(str) |-> IF str[k] = "D" THEN "d" ELSE str[k]]

\* str.replace(old, new) for one-character old and new
Replace(str, old, new) == [k \in 1..Len(str) |-> IF str[k] = old THEN new ELSE str[k]]

\* a profile name that always carries the permission-set name
ProfileName_always_pset(account_name, pset, psets) == account_name \o <<"-", pset>>

\* if len(permission_set_names) > 1: f"{prefix}{account_name}{postfix}-{pset}"
\* else: f"{prefix}{account_name}{postfix}", prefix and postfix being ""
ProfileName(account_name, pset, psets) ==
    IF Len(psets) > 1 THEN account_name \o <<"-", pset>> ELSE account_name

\* the block output_lines is extended with for one account and one
\* permission set: its lines that depend on them
ProfileBlock(account, pset, psets) ==
    [profile |-> ProfileName(Replace(Lower(account.Name), " ", "-"), pset, psets),
     sso_account_id |-> account.Id,
     sso_role_name |-> pset]

\* for account in accounts: for pset in permission_set_names: extend
ProfileBlocks(accounts, psets) ==
    Concat([i \in 1..Len(accounts) |->
               [j \in 1..Len(psets) |-> ProfileBlock(accounts[i], psets[j], psets)]])

\* the accounts the listing returned: every account has its own Id
InitSso ==
    /\ \E n \in 0..MaxSsoAccounts :
          \E names \in [1..n -> Names] :
             ssoAccounts = [i \in 1..n |-> [Id |-> i, Name |-> names[i]]]
    /\ permission_set_names \in PsetLists
    /\ ssoPc = "listed"
    /\ output_lines = <<>>
    /\ MainIdle
    /\ RegionIdle
    /\ TaggerIdle
    /\ FlattenIdle
    /\ PagingIdle
    /\ BackendIdle
    /\ BaselineIdle
    /\ LastIdle

\* the loops over accounts and permission_set_names; the print and the
\* write of output_lines
WriteConfig ==
    /\ ssoPc = "listed"
    /\ output_lines' = ProfileBlocks(ssoAccounts, permission_set_names)
    /\ ssoPc' = "written"
    /\ UNCHANGED <<ssoAccounts, permission_set_names>>
    /\ SsoFrame

NextSso == WriteConfig

SpecSso == InitSso /\ [][NextSso]_vars

-----------------------------------------------------------------------------
(* backend.py: sha1, render_backend_block, gen_tf_backend *)

MaxBackendAccounts == 2

\* text is a sequence of one-character strings; a 32-bit word is the pair
\* <<high 16 bits, low 16 bits>>

Digits == <<"0", "1", "2", "3", "4", "5", "6", "7", "8", "9">>
Letters == <<"a", "b", "c", "d", "e", "f", "g", "h", "i", "j", "k", "l", "m",
             "n", "o", "p", "q", "r", "s", "t", "u", "v", "w", "x", "y", "z">>

\* text.encode("utf-8") for one ASCII character
Ord(c) ==
    IF c = "-" THEN 45
    ELSE IF \E d \in 1..10 : Digits[d] = c
         THEN 47 + (CHOOSE d \in 1..10 : Digits[d] = c)
         ELSE 96 + (CHOOSE l \in 1..26 : Letters[l] = c)

Encode(text) == [k \in 1..Len(text) |-> Ord(text[k])]

RECURSIVE Bitwise(_, _, _, _)
Bitwise(op, a, b, n) ==
    IF n = 0 THEN 0
    ELSE op[a % 2][b % 2] + 2 * Bitwise(op, a \div 2, b \div 2, n - 1)

AndTable == <<<<0, 0>>, <<0, 1>>>>
OrTable == <<<<0, 1>>, <<1, 1>>>>
XorTable == <<<<0, 1>>, <<1, 0>>>>
Tab(t) == [x \in 0..1 |-> [y \in 0..1 |-> t[x + 1][y + 1]]]

WAnd(x, y) == <<Bitwise(Tab(AndTable), x[1], y[1], 16), Bitwise(Tab(AndTable), x[2], y[2], 16)>>
WOr(x, y) == <<Bitwise(Tab(OrTable), x[1], y[1], 16), Bitwise(Tab(OrTable), x[2], y[2], 16)>>
WXor(x, y) == <<Bitwise(Tab(XorTable), x[1], y[1], 16), Bitwise(Tab(XorTable), x[2], y[2], 16)>>
WNot(x) == <<65535 - x[1], 65535 - x[2]>>

\* addition modulo 2^32
WAdd(x, y) ==
    LET lo == x[2] + y[2]
        hi == x[1] + y[1] + (lo \div 65536)
    IN  <<hi % 65536, lo % 65536>>

\* rotation to the left by n bits, 0 <= n < 32
Rotl(x, n) ==
    LET y == IF n >= 16 THEN <<x[2], x[1]>> ELSE x
        m == n % 16
    IN  <<((y[1] * (2 ^ m)) % 65536) + (y[2] \div (2 ^ (16 - m))),
          ((y[2] * (2 ^ m)) % 65536) + (y[1] \div (2 ^ (16 - m)))>>

\* the message with the 1 bit, the zero bytes and the 64-bit length in bits
Padded(bytes) ==
    LET zeros == (119 - Len(bytes)) % 64
        bits == 8 * Len(bytes)
    IN  bytes \o <<128>> \o [k \in 1..zeros |-> 0]
              \o <<0, 0, 0, 0, 0, bits \div 65536, (bits \div 256) % 256, bits % 256>>

\* the 16 big-endian words of the block that starts after byte `off`
BlockWords(bytes, off) ==
    [k \in 1..16 |->
        <<bytes[off + 4 * k - 3] * 256 + bytes[off + 4 * k - 2],
          bytes[off + 4 * k - 1] * 256 + bytes[off + 4 * k]>>]

RECURSIVE Schedule(_)
Schedule(w) ==
    IF Len(w) = 80 THEN w
    ELSE LET t == Len(w) + 1
         IN  Schedule(Append(w, Rotl(WXor(WXor(w[t - 3], w[t - 8]),
                                          WXor(w[t - 14], w[t - 16])), 1)))

RoundF(t, b, c, d) ==
    IF t <= 20 THEN WOr(WAnd(b, c), WAnd(WNot(b), d))
    ELSE IF t <= 40 THEN WXor(WXor(b, c), d)
    ELSE IF t <= 60 THEN WOr(WOr(WAnd(b, c), WAnd(b, d)), WAnd(c, d))
    ELSE WXor(WXor(b, c), d)

RoundK(t) ==
    IF t <= 20 THEN <<23170, 31129>>
    ELSE IF t <= 40 THEN <<28377, 60321>>
    ELSE IF t <= 60 THEN <<36635, 48348>>
    ELSE <<51810, 49622>>

RECURSIVE Rounds(_, _, _)
Rounds(h, w, t) ==
    IF Len(h) = 5 /\ t > 80 THEN h
    ELSE LET temp == WAdd(WAdd(WAdd(Rotl(h[1], 5), RoundF(t, h[2], h[3], h[4])),
                               WAdd(h[5], RoundK(t))), w[t])
         IN  Rounds(<<temp, h[1], Rotl(h[2], 30), h[3], h[4]>>, w, t + 1)

RECURSIVE Compress(_, _, _)
Compress(h, bytes, off) ==
    IF off >= Len(bytes) THEN h
    ELSE LET r == Rounds(h, Schedule(BlockWords(bytes, off)), 1)
         IN  Compress([k \in 1..5 |-> WAdd(h[k], r[k])], bytes, off + 64)

InitialHash ==
    <<<<26437, 8961>>, <<61389, 43913>>, <<39098, 56574>>, <<4146, 21622>>, <<50130, 57840>>>>

HexChars == Digits \o SubSeq(Letters, 1, 6)

\* four hexadecimal characters of a 16-bit value, without the leading zeros
RECURSIVE Hex16_unpadded(_)
Hex16_unpadded(v) ==
    IF v = 0 THEN <<>> ELSE Append(Hex16_unpadded(v \div 16), HexChars[(v % 16) + 1])

\* four hexadecimal characters of a 16-bit value
Hex16(v) ==
    <<HexChars[(v \div 4096) + 1], HexChars[((v \div 256) % 16) + 1],
      HexChars[((v \div 16) % 16) + 1], HexChars[(v % 16) + 1]>>

\* hexdigest()
HexDigest(h) == Concat([k \in 1..5 |-> Hex16(h[k][1]) \o Hex16(h[k][2])])

\* hashlib.sha1(text.encode("utf-8")).hexdigest()
sha1(text) == HexDigest(Compress(InitialHash, Padded(Encode(text)), 0))

\* the two names of the block that carry env_hash, and the rest of it
render_backend_block(rgn, env_hash, acct_id, acct_name) ==
    [account |-> <<acct_name, acct_id>>,
     bucket |-> <<"terraform-state-">> \o env_hash,
     region |-> rgn,
     dynamodb_table |-> <<"terraform-state-lock-">> \o env_hash]

AcctIds == {<<"1", "2", "3", "4", "5", "6", "7", "8", "9", "0", "1", "2">>,
            <<"2", "1", "0", "9", "8", "7", "6", "5", "4", "3", "2", "1">>,
            <<"0", "0", "0", "0", "0", "0", "0", "0", "0", "0", "0", "0">>}

BackendRegions == {<<"u", "s", "-", "e", "a", "s", "t", "-", "1">>,
                   <<"e", "u", "-", "w", "e", "s", "t", "-", "1">>,
                   <<"a", "p", "-", "s", "o", "u", "t", "h", "-", "1">>}

\* list_active_accounts returns (Id, Name) pairs, every account once
ActiveAccountLists ==
    {l \in UNION {[1..n -> AcctIds] : n \in 0..MaxBackendAccounts} :
        \A i, j \in 1..Len(l) : l[i] = l[j] => i = j}

InitBackend ==
    /\ beRegion \in {<<>>} \cup BackendRegions
    /\ \E ids \in ActiveAccountLists :
          beAccounts = [i \in 1..Len(ids) |-> <<ids[i], "name">>]
    /\ bePc = "start"
    /\ blocks = <<>>
    /\ written = <<>>
    /\ MainIdle
    /\ RegionIdle
    /\ TaggerIdle
    /\ FlattenIdle
    /\ PagingIdle
    /\ SsoIdle
    /\ BaselineIdle
    /\ LastIdle

\* if region is None: region = click.prompt(...); then the management
\* account id and the listing
ResolveRegion ==
    /\ bePc = "start"
    /\ IF beRegion = <<>>
       THEN \E r \in BackendRegions : beRegion' = r
       ELSE beRegion' = beRegion
    /\ bePc' = "loop"
    /\ UNCHANGED <<beAccounts, blocks, written>>
    /\ BackendFrame

\* one turn of: for acct_id, acct_name in accounts
AppendBlock ==
    /\ bePc = "loop"
    /\ Len(blocks) < Len(beAccounts)
    /\ LET acct_id == beAccounts[Len(blocks) + 1][1]
           acct_name == beAccounts[Len(blocks) + 1][2]
           env_hash == sha1(acct_id \o <<"-">> \o beRegion)
       IN  blocks' = Append(blocks, render_backend_block(beRegion, env_hash, acct_id, acct_name))
    /\ UNCHANGED <<beRegion, beAccounts, bePc, written>>
    /\ BackendFrame

\* write_tf_file(output_file, blocks)
WriteTfFile ==
    /\ bePc = "loop"
    /\ Len(blocks) = Len(beAccounts)
    /\ written' = <<blocks>>
    /\ bePc' = "done"
    /\ UNCHANGED <<beRegion, beAccounts, blocks>>
    /\ BackendFrame

NextBackend == ResolveRegion \/ AppendBlock \/ WriteTfFile

SpecBackend == InitBackend /\ [][NextBackend]_vars

-----------------------------------------------------------------------------
(* cli.py check_baseline, tools.py check_tf_state_bucket *)

\* what head_bucket answers: the bucket is there, or an error code
HeadAnswers == {"200", "404", "403"}

\* the names backend.py defines
BackendNames ==
    {"get_management_account_id", "list_active_accounts", "sha1",
     "render_backend_block", "write_tf_file", "gen_tf_backend"}

\* backend.<name>: the attribute lookup on the module
HasAttr(name) == name \in BackendNames

\* try: s3.head_bucket(...); return True
\* except ClientError: "404" -> return False, else raise e
head_bucket_result(answer) ==
    IF answer = "200" THEN "True"
    ELSE IF answer = "404" THEN "False"
    ELSE "ClientError"

\* check_tf_state_bucket: "True" and "False" are returned, the other
\* outcomes are the exception that leaves the function
check_tf_state_bucket(account) ==
    IF ~account.assumable THEN "False"
    ELSE IF ~HasAttr("get_aws_account_id") THEN "AttributeError"
    ELSE IF ~HasAttr("hash_environment_id") THEN "AttributeError"
    ELSE head_bucket_result(account.head)

BaselineAccounts == [assumable : BOOLEAN, head : HeadAnswers]

InitBaseline ==
    /\ blAccounts \in UNION {[1..n -> BaselineAccounts] : n \in 0..MaxAccounts}
    /\ blI = 0
    /\ blPc = "loop"
    /\ blResult = "None"
    /\ blEcho = FALSE
    /\ MainIdle
    /\ RegionIdle
    /\ TaggerIdle
    /\ FlattenIdle
    /\ PagingIdle
    /\ SsoIdle
    /\ BackendIdle
    /\ LastIdle

\* one turn of: for account in accounts; an exception leaves the command
CheckAccount ==
    /\ blPc = "loop"
    /\ blI < Len(blAccounts)
    /\ blI' = blI + 1
    /\ blResult' = check_tf_state_bucket(blAccounts[blI + 1])
    /\ blEcho' = (blResult' = "False")
    /\ blPc' = IF blResult' \in {"True", "False"} THEN "loop" ELSE "raised"
    /\ UNCHANGED blAccounts
    /\ BaselineFrame

FinishBaseline ==
    /\ blPc = "loop"
    /\ blI = Len(blAccounts)
    /\ blPc' = "done"
    /\ UNCHANGED <<blAccounts, blI, blResult, blEcho>>
    /\ BaselineFrame

NextBaseline == CheckAccount \/ FinishBaseline

SpecBaseline == InitBaseline /\ [][NextBaseline]_vars

-----------------------------------------------------------------------------
(* main.py execute_on_account_in_org_root and tools.py 101-118, run by two   *)
(* operations on one account at the same time                               *)

MaxOps == 2
Ops == 1..MaxOps

\* get_parent answering the root whatever the parent is
get_parent_always_root(current) == Root

\* get_parent(account.id).id: the parent the remote holds now
get_parent(current) == current

\* the remote's move_account(id, source, destination): the new parent, or
\* NoId when it refuses (the account is not under source, or is already
\* under destination)
move_account(current, source, destination) ==
    IF current = source /\ source # destination THEN destination ELSE NoId

InitRace ==
    /\ raceOrig \in ParentIds
    /\ raceParent = raceOrig
    /\ opFn \in [Ops -> {"exec", "v1"}]
    /\ opPc = [p \in Ops |-> "lookup"]
    /\ opParentId = [p \in Ops |-> NoId]
    /\ opBegan = [p \in Ops |-> {}]
    /\ opRan = [p \in Ops |-> <<>>]
    /\ movedBack = {}
    /\ MainIdle
    /\ RegionIdle
    /\ TaggerIdle
    /\ FlattenIdle
    /\ PagingIdle
    /\ SsoIdle
    /\ BackendIdle
    /\ BaselineIdle
    /\ NameIdle

\* parent_id = self.get_parent(account.id).id; root_id = self.get_root_id()
RaceLookup(p) ==
    /\ opPc[p] = "lookup"
    /\ opParentId' = [opParentId EXCEPT ![p] = get_parent(raceParent)]
    /\ opBegan' = [opBegan EXCEPT ![p] = movedBack]
    /\ opPc' = [opPc EXCEPT ![p] = "move"]
    /\ UNCHANGED <<raceParent, raceOrig, opFn, opRan, movedBack>>
    /\ RaceFrame

\* self.move_account(account.id, parent_id, root_id), outside any try: a
\* refusal or any other error leaves the operation
RaceMoveToRoot(p) ==
    /\ opPc[p] = "move"
    /\ LET to == move_account(raceParent, opParentId[p], Root) IN
       \/ /\ to # NoId
          /\ raceParent' = to
          /\ opPc' = [opPc EXCEPT ![p] = "action"]
       \/ /\ UNCHANGED raceParent
          /\ opPc' = [opPc EXCEPT ![p] = "raised"]
    /\ UNCHANGED <<raceOrig, opFn, opParentId, opBegan, opRan, movedBack>>
    /\ RaceFrame

\* action(account) / the retried try_to_assume_and_ask_to_create_role: it
\* returns or raises.  exec: except: raise e, finally.  v1: except
\* Exception: echo
RaceAction(p) ==
    /\ opPc[p] = "action"
    /\ opRan' = [opRan EXCEPT ![p] = <<[at |-> raceParent, after |-> movedBack]>>]
    /\ \E raises \in BOOLEAN :
          opPc' = [opPc EXCEPT ![p] =
                      IF raises /\ opFn[p] = "exec" THEN "move_back_exc" ELSE "move_back"]
    /\ UNCHANGED <<raceParent, raceOrig, opFn, opParentId, opBegan, movedBack>>
    /\ RaceFrame

\* self.move_account(account.id, root_id, parent_id); exec raises the
\* exception in flight again at the end of finally
RaceMoveBack(p) ==
    /\ opPc[p] \in {"move_back", "move_back_exc"}
    /\ LET to == move_account(raceParent, Root, opParentId[p]) IN
       \/ /\ to # NoId
          /\ raceParent' = to
          /\ movedBack' = movedBack \cup {p}
          /\ opPc' = [opPc EXCEPT ![p] = IF opPc[p] = "move_back" THEN "done" ELSE "raised"]
       \/ /\ UNCHANGED <<raceParent, movedBack>>
          /\ opPc' = [opPc EXCEPT ![p] = "raised"]
    /\ UNCHANGED <<raceOrig, opFn, opParentId, opBegan, opRan>>
    /\ RaceFrame

NextRace ==
    \/ \E p \in Ops : RaceLookup(p)
    \/ \E p \in Ops : RaceMoveToRoot(p)
    \/ \E p \in Ops : RaceAction(p)
    \/ \E p \in Ops : RaceMoveBack(p)

SpecRace == InitRace /\ [][NextRace]_vars

-----------------------------------------------------------------------------
(* cross_account_vpc_tagger.py get_subnet_type_from_name and tag_vpc        *)
(* get_tags.py get_subnet_type_suffix; a str is a sequence of characters    *)

MaxSubnetNameLen == 7

\* the characters of the names: a letter, the letter of the subnet type, "-"
SubnetNameChars == {"a", "d", "-"}
SubnetNames == UNION {[1..n -> SubnetNameChars] : n \in 0..MaxSubnetNameLen}

\* the VPC names the caller passes; VPC_NAME of get_tags.py is a name
\* without a hyphen
VPC_NAME == <<"a">>
VpcNames == {VPC_NAME, <<"d">>, <<"a", "-", "a">>}

\* valid_subnet_types
VALID_SUBNET_TYPES == <<<<"d">>>>

\* str.split(sep): the pieces between the separators, empty ones included
RECURSIVE Split(_, _)
Split(str, sep) ==
    IF \A i \in 1..Len(str) : str[i] # sep
    THEN <<str>>
    ELSE LET k == CHOOSE i \in 1..Len(str) :
                     str[i] = sep /\ \A j \in 1..(i - 1) : str[j] # sep
         IN <<SubSeq(str, 1, k - 1)>> \o Split(SubSeq(str, k + 1, Len(str)), sep)

\* x in list
InList(x, list) == \E i \in 1..Len(list) : list[i] = x

\* the value a function returned: None, or a str
ReturnedNone == [none |-> TRUE, value |-> <<>>]
ReturnedStr(str) == [none |-> FALSE, value |-> str]

\* get_subnet_type_from_name(subnet_name, vpc_name, valid_subnet_types)
get_subnet_type_from_name(subnet_name, vpc_name, valid_subnet_types) ==
    LET name_parts == Split(subnet_name, "-") IN
    IF Len(name_parts) >= 3 /\ name_parts[1] = vpc_name
    THEN LET subnet_type == name_parts[2] IN
         IF InList(subnet_type, valid_subnet_types)
         THEN ReturnedStr(subnet_type)
         ELSE ReturnedNone
    ELSE ReturnedNone

\* get_subnet_type_suffix(subnet_name, valid_subnet_types): the same with
\* the module's VPC_NAME
get_subnet_type_suffix(subnet_name, valid_subnet_types) ==
    LET name_parts == Split(subnet_name, "-") IN
    IF Len(name_parts) >= 3 /\ name_parts[1] = VPC_NAME
    THEN LET subnet_type == name_parts[2] IN
         IF InList(subnet_type, valid_subnet_types)
         THEN ReturnedStr(subnet_type)
         ELSE ReturnedNone
    ELSE ReturnedNone

InitName ==
    /\ \E fn \in {"from_name", "suffix"}, sn \in SubnetNames, vn \in VpcNames :
          /\ fn = "suffix" => vn = VPC_NAME
          /\ snIn = [fn |-> fn, subnet_name |-> sn, vpc_name |-> vn]
    /\ snOut = <<>>
    /\ MainIdle
    /\ RegionIdle
    /\ TaggerIdle
    /\ FlattenIdle
    /\ PagingIdle
    /\ SsoIdle
    /\ BackendIdle
    /\ BaselineIdle
    /\ RaceIdle

\* subnet_type = get_subnet_type_from_name(subnet_name, vpc_name, VALID_SUBNET_TYPES)
ParseFromName ==
    /\ snOut = <<>>
    /\ snIn.fn = "from_name"
    /\ snOut' = <<get_subnet_type_from_name(snIn.subnet_name, snIn.vpc_name,
                                            VALID_SUBNET_TYPES)>>
    /\ UNCHANGED snIn
    /\ NameFrame

\* if subnet_type := get_subnet_type_suffix(subnet_name, VALID_SUBNET_TYPES)
ParseSuffix ==
    /\ snOut = <<>>
    /\ snIn.fn = "suffix"
    /\ snOut' = <<get_subnet_type_suffix(snIn.subnet_name, VALID_SUBNET_TYPES)>>
    /\ UNCHANGED snIn
    /\ NameFrame

NextName ==
    \/ ParseFromName
    \/ ParseSuffix

SpecName == InitName /\ [][NextName]_vars

-----------------------------------------------------------------------------
(* Claims about the organization tree *)

\* C1: all_accounts() on the structure returned by get_org_structure(root)
\* returns every account of the organization exactly once, the accounts
\* whose direct parent is the root included.
C1_EveryAccountExactlyOnce ==
    pcOrg = "flattened" => \A a \in Accounts : Count(a, result) = 1

-----------------------------------------------------------------------------
(* Claims about the role bootstrap of create_roles *)

CallsOf(a) == {c \in calls : c.acct = a}
MutatingOps == {"create_role", "attach_role_policy", "move_account"}
Echoed(a, m) == [acct |-> a, msg |-> m] \in echo

\* C3: role_to_create() implements the decision table: (false, true)
\* selects the organization-access role, (true, false) the Control Tower
\* execution role, (true, true) nothing, and (false, false) raises and
\* selects nothing.
C3_DecisionTable ==
    pcR = "branch" =>
        /\ (~status.org_access /\ status.ct_execution) =>
               to_create = [raised |-> FALSE, value |-> ORG_ACCESS_ROLE_NAME]
        /\ (status.org_access /\ ~status.ct_execution) =>
               to_create = [raised |-> FALSE, value |-> CT_EXECUTION_ROLE_NAME]
        /\ (status.org_access /\ status.ct_execution) =>
               to_create = [raised |-> FALSE, value |-> None]
        /\ (~status.org_access /\ ~status.ct_execution) =>
               to_create = [raised |-> TRUE, value |-> None]

C3_Witness ==
    /\ pcR = "branch"
    /\ status = [org_access |-> FALSE, ct_execution |-> TRUE]
    /\ to_create.value = ORG_ACCESS_ROLE_NAME

BothMissingNow ==
    /\ pcR = "branch"
    /\ status = [org_access |-> FALSE, ct_execution |-> FALSE]

\* C6: for an account where neither role can be assumed, create_roles
\* echoes the condition, issues no call for that account beyond the two
\* role checks (no create-role), and goes on to the next account of the
\* batch, whose role check can then run.
C6_BothMissingSkipped ==
    /\ [](\A a \in Accounts :
             Echoed(a, "unable_to_assume") =>
                 \A c \in CallsOf(a) : c.op = "assume_role" /\ c.res # "ok")
    /\ []((pcR = "loop" /\ idx <= Len(batch)) => ENABLED CheckRoles)
    /\ [][BothMissingNow =>
             /\ pcR' = "loop"
             /\ idx' = idx + 1
             /\ [acct |-> batch[idx], msg |-> "unable_to_assume"] \in echo'
             /\ calls' = calls]_vars

C6_Witness ==
    /\ Len(batch) >= 2
    /\ Echoed(batch[1], "unable_to_assume")
    /\ CallsOf(batch[2]) # {}

BothAssumable(a) ==
    /\ Call(a, "assume_role", ORG_ACCESS_ROLE_NAME, MGMT, "ok") \in calls
    /\ Call(a, "assume_role", CT_EXECUTION_ROLE_NAME, MGMT, "ok") \in calls

\* C7: for an account whose two roles were both assumed, create_roles
\* issues nothing but the two role checks: no get-role, no create-role and
\* no attach-policy call, with or without --dry-run.
C7_BothPresentNoAction ==
    \A a \in Accounts :
        BothAssumable(a) => \A c \in CallsOf(a) : c.op = "assume_role"

C7_Witness ==
    /\ pcR = "done"
    /\ ~dry_run
    /\ \E a \in Accounts : BothAssumable(a) /\ Echoed(a, "already_created")

\* C8: when exactly one role is missing, get-role, create-role and
\* attach-policy are issued under the other role, which the check found
\* assumable, never under the missing one; create-role is issued only after
\* get-role under that identity answered NoSuchEntity, and never for a role
\* that exists.
C8_BootstrapIdentity ==
    /\ [](\A c \in calls :
             c.op \in {"get_role", "create_role", "attach_role_policy"} =>
                 /\ c.as # c.role
                 /\ c.as \in RoleNames
                 /\ Call(c.acct, "assume_role", c.as, MGMT, "ok") \in calls
                 /\ c.op = "create_role" =>
                        Call(c.acct, "get_role", c.role, c.as, "NoSuchEntity") \in calls)
    /\ [][\A c \in calls' \ calls :
             c.op = "create_role" => c.role \notin roles[c.acct]]_vars

C8_Witness ==
    \E a \in Accounts :
        /\ Call(a, "create_role", ORG_ACCESS_ROLE_NAME, CT_EXECUTION_ROLE_NAME, "ok") \in calls
        /\ Call(a, "assume_role", ORG_ACCESS_ROLE_NAME, MGMT, "AccessDenied") \in calls

\* the role exists but cannot be assumed, and nothing is created for it
C8_WitnessUnassumable ==
    \E a \in Accounts :
        /\ Call(a, "get_role", ORG_ACCESS_ROLE_NAME, CT_EXECUTION_ROLE_NAME, "ok") \in calls
        /\ Call(a, "assume_role", ORG_ACCESS_ROLE_NAME, MGMT, "AccessDenied") \in calls
        /\ idx > a

\* C9: with --dry-run create_roles issues no create-role, attach-policy or
\* move-account call, and no step changes the roles of an account or the
\* parent of an account.
C9_DryRunChangesNothing ==
    /\ [](dry_run => \A c \in calls : c.op \notin MutatingOps)
    /\ [][dry_run => (roles' = roles /\ acctParent' = acctParent)]_vars

C9_Witness ==
    /\ dry_run
    /\ pcR = "done"
    /\ \E a \in Accounts : Echoed(a, "missing")

-----------------------------------------------------------------------------
(* Claims about the SCP-retry path *)

\* C2: a call (try_to_assume_and_ask_to_create_role on its SCP-retry path,
\* or execute_on_account_in_org_root) that has moved the account from its
\* parent to the root never ends, by return or by exception, without having
\* issued the move from the root back to exactly that parent.
C2_MovedBackOnEveryExit ==
    \A x \in exits :
        x.moved # NoId => x.back = [src |-> Root, dst |-> x.moved]

\* the account was moved by try_to_assume_and_ask_to_create_role, the
\* retried call raised, and the call returned after moving the account back
C2_Witness ==
    /\ outcome = "returned"
    /\ \E x \in exits :
          /\ x.fn = "v1"
          /\ x.moved \in OUs
          /\ x.back.dst = x.moved
    /\ \E y \in exits : y.how \notin {"returned", "RecursionError"}
    /\ acctParent[tAcct] \in OUs

\* the same through execute_on_account_in_org_root, the action raising
C2_WitnessExec ==
    /\ \E x \in exits :
          /\ x.fn = "exec"
          /\ x.moved \in OUs
          /\ x.back.dst = x.moved
          /\ x.how = "AccessDenied"
    /\ acctParent[tAcct] \in OUs

-----------------------------------------------------------------------------
(* Claims about the default-VPC fan-out *)

UnitFinished == {"ok", "err"}

\* C4: an exception of one unit of the fan-out is caught and reported for
\* that unit: a failed region unit never makes its account unit raise and
\* is echoed with the account id when the account unit collects it, a
\* failed account unit is echoed when process_vpcs collects it, every
\* sibling unit still runs to its end, and process_vpcs never raises.
C4_UnitFailureContained ==
    /\ [](pcMain # "raised")
    /\ [](pcMain = "finished" => \A a \in Accounts : aState[a] \in UnitFinished)
    /\ [][\A a \in Accounts :
             aState[a] = "fanout" =>
                /\ aState'[a] \in {"fanout", "ok"}
                /\ (aState'[a] = "ok" /\ rFailed[a]) =>
                      Report(a, "region_error") \in reported']_vars
    /\ [][(pcMain = "submitted" /\ pcMain' # "submitted") =>
             \A a \in Accounts :
                aState[a] = "err" => Report(a, "account_error") \in reported']_vars

\* with one worker thread, an account unit has raised, and after it a
\* sibling account runs a region unit although one of its region units
\* has raised before
C4_Witness ==
    /\ workers = 1
    /\ \E a, b \in Accounts :
          /\ aState[a] = "err"
          /\ aState[b] = "fanout"
          /\ rFailed[b]
          /\ \E r \in Regions : rState[b][r] = "running"

\* the failures are reported: process_vpcs has finished and echoed the
\* account unit that raised
C4_WitnessReported ==
    /\ pcMain = "finished"
    /\ \E a \in Accounts : Report(a, "account_error") \in reported

\* C5: process_vpcs reports completion and returns only when every account
\* unit it submitted has finished, with or without an error; an account
\* unit finishes only when every region unit it submitted has finished;
\* and with weakly fair worker threads a submitted fan-out comes to its
\* end, so that every submitted unit has run, whatever the pool size.
C5_RunnerDrains ==
    /\ [][(pcMain = "submitted" /\ pcMain' # "submitted") =>
             \A a \in Accounts : aState[a] \in UnitFinished]_vars
    /\ [][\A a \in Accounts :
             (aState[a] = "fanout" /\ aState'[a] # "fanout") =>
                \A r \in Regions : rState[a][r] = "done"]_vars
    /\ (pcMain = "submitted") ~> (pcMain \in {"finished", "raised"})

\* a pool of one worker thread has drained: process_vpcs has finished, an
\* account unit having raised and another having returned
C5_Witness ==
    /\ workers = 1
    /\ pcMain = "finished"
    /\ \E a, b \in Accounts : aState[a] = "err" /\ aState[b] = "ok"

\* C10: without --force no step of any region unit issues a subnet delete,
\* an internet-gateway detach or delete, or a VPC delete.
C10_NoDeleteWithoutForce ==
    ~force => deleteCalls = {}

\* without --force a region unit has met a default VPC and echoed that it
\* would delete it
C10_Witness ==
    /\ ~force
    /\ \E a \in Accounts : Report(a, "would_delete") \in reported

\* with --force the calls are issued
C10_WitnessForce ==
    /\ force
    /\ \E c \in deleteCalls : c.op = "delete_vpc"

-----------------------------------------------------------------------------
(* Claims about one region unit *)

\* C11: every subnet delete, internet-gateway detach or delete and VPC
\* delete a region unit makes is for a default VPC whose network interfaces
\* were listed before that call and found to be none; a VPC that is not the
\* default one, or that still has a network interface, has nothing deleted.
C11_DeleteOnlyDefaultWithoutEnis ==
    regionOut # <<>> =>
        \A i \in 1..Len(regionOut[1].calls) :
            regionOut[1].calls[i].op \in DeleteOps =>
                LET v == regionOut[1].calls[i].vpc IN
                /\ regionIn.destructive
                /\ regionIn.vpcs[v].is_default
                /\ ~regionIn.vpcs[v].has_enis
                /\ \E j \in 1..(i - 1) : regionOut[1].calls[j] = [vpc |-> v, op |-> "list_enis"]

\* with --force a region held a default VPC that still has a network
\* interface and a default VPC that has none: the unit echoed the first,
\* deleted the second, and no call raised
C11_Witness ==
    /\ regionOut # <<>>
    /\ regionIn.destructive
    /\ ~regionOut[1].raised
    /\ regionOut[1].still_has_enis
    /\ \E i \in 1..Len(regionOut[1].calls) : regionOut[1].calls[i].op = "delete_vpc"

\* with --force a region held a VPC that is not the default one: nothing
\* but the listing of the VPCs was called
C11_WitnessNotDefault ==
    /\ regionOut # <<>>
    /\ regionIn.destructive
    /\ Len(regionIn.vpcs) > 0
    /\ \A i \in 1..Len(regionIn.vpcs) : ~regionIn.vpcs[i].is_default
    /\ regionOut[1].calls = <<[vpc |-> 0, op |-> "list_vpcs"]>>
    /\ ~regionOut[1].raised

-----------------------------------------------------------------------------
(* Claims about the tag copy *)

\* C12: with dry_run=True no step of copy_vpc_subnet_tags_using_ram or of
\* copy_vpc_subnet_tags_cross_account, through apply_tags_to_vpc and
\* apply_subnet_tags_to_workloads_account, calls create_tags on a VPC or a
\* subnet of any account, and no resource is given tags.
C12_DryRunCreatesNoTags ==
    tagIn.dry_run =>
        /\ \A c \in tagCalls : c.op # "create_tags"
        /\ tagged = {}

\* with dry_run=True the loop has met a subnet of the workloads account and
\* recorded True for it without a create_tags call
C12_Witness ==
    /\ tagIn.dry_run
    /\ \E r \in tagResult : r.res \in Subnets /\ r.ok
    /\ tagCalls = {}

\* the same for the Name tag of the VPC
C12_WitnessVpc ==
    /\ tagIn.dry_run
    /\ \E r \in tagResult : r.res = VpcRes /\ r.ok
    /\ tagged = {}

\* with dry_run=False the tags are created
C12_WitnessApplied ==
    /\ ~tagIn.dry_run
    /\ \E t \in tagged : t.res \in Subnets

\* a required parameter of copy_vpc_subnet_tags_using_ram is missing
MissingParameter ==
    /\ tagIn.entry = "using_ram"
    /\ \/ tagIn.region \in {None, "", " "}
       \/ tagIn.ids = <<>>

\* C18: copy_vpc_subnet_tags_using_ram called with an empty or blank region,
\* or without networking account ids, ends with a fatal error, and no remote
\* call has been made.
C18_MissingParameterIsFatal ==
    (MissingParameter /\ tagPc # "start") =>
        /\ tagOut = "ValueError"
        /\ ~tagRemote

\* what holds of the code: the call ends at once, without any remote call
C18_MissingParameterNoRemoteCall ==
    (MissingParameter /\ tagPc # "start") =>
        /\ tagPc = "done"
        /\ ~tagRemote

\* the region is given and the networking account ids are missing: the
\* call has returned
C18_WitnessReturned ==
    /\ tagIn.entry = "using_ram"
    /\ tagIn.region = "us-east-1"
    /\ tagIn.ids = <<>>
    /\ tagOut = "returned"

-----------------------------------------------------------------------------
(* Claims about the flatten *)

RECURSIVE PathTo(_)
\* the OUs from the top of the tree down to the OU o
PathTo(o) == IF ouParent[o] = Root THEN <<o>> ELSE Append(PathTo(ouParent[o]), o)

\* the account a comes before the account b in the in-order flatten: in
\* the same OU the one stored first; else the one held by an OU above the
\* other's; else the one in the child stored first where their paths part
FlatBefore(a, b) ==
    LET pa == PathTo(acctParent[a])
        pb == PathTo(acctParent[b])
        common == {k \in 1..Len(pa) : k <= Len(pb) /\ \A j \in 1..k : pa[j] = pb[j]}
        n == Cardinality(common)
    IN IF pa = pb THEN acctRank[a] < acctRank[b]
       ELSE IF n = Len(pa) THEN TRUE
       ELSE IF n = Len(pb) THEN FALSE
       ELSE ouRank[pa[n + 1]] < ouRank[pb[n + 1]]

\* the list s holds exactly the accounts of S, each once, in flatten order
IsFlattenOf(s, S) ==
    /\ Len(s) = Cardinality(S)
    /\ {s[i] : i \in 1..Len(s)} = S
    /\ \A i, j \in 1..Len(s) : i < j => FlatBefore(s[i], s[j])

\* the accounts at or below the OU o
AccountsBelow(o) ==
    {a \in Accounts : \E k \in 1..Len(PathTo(acctParent[a])) : PathTo(acctParent[a])[k] = o}

\* C13: all_accounts() on an OrgStructure and on every OU node of it is the
\* in-order flatten: the direct accounts in stored order, then the flatten
\* of each child in child order; and every call on the same tree returns
\* the same list.
C13_InOrderFlatten ==
    /\ \A k \in 1..Len(flatOut) :
          /\ IsFlattenOf(flatOut[k], Accounts)
          /\ flatOut[k] = flatOut[1]
    /\ \A node \in NodesOf(flatTree.children) :
          IsFlattenOf(_all_accounts(node), AccountsBelow(node.id))

\* two calls were made on a tree where an OU holds an account and a child
\* OU that holds another, the accounts stored against the order of their ids
C13_Witness ==
    /\ Len(flatOut) = 2
    /\ \E a, b \in Accounts :
          /\ a > b
          /\ acctParent[b] \in OUs
          /\ ouParent[acctParent[b]] = acctParent[a]
          /\ flatOut[2] = <<a, b>> \o SubSeq(flatOut[2], 3, Len(flatOut[2]))

-----------------------------------------------------------------------------
(* Claims about the list operations *)

\* the items of all pages, in page order, that the operation is to return
AllItems ==
    LET all == Concat(pgPages)
        keep == {i \in 1..Len(all) : pgOp = "list_active_accounts" => all[i].active}
        ix == SortedSeq(keep)
    IN [k \in 1..Len(ix) |-> all[ix[k]]]

\* C14: every list operation requests the pages one after the other while
\* the remote returns a continuation token, stops when it returns none, and
\* returns the items of all pages in page order, never a list built from
\* only some of the pages.
C14_PaginationToTheEnd ==
    /\ pgOut # <<>> =>
          /\ pgOut[1] = AllItems
          /\ pgRequests = [k \in 1..Len(pgPages) |-> k]
    /\ pgPc = "loop" => Len(pgRequests) < Len(pgPages)
    /\ \A k \in 1..Len(pgRequests) : pgRequests[k] = k

\* the SSO generator's loop has returned the items of two pages
C14_Witness ==
    /\ pgOp = "sso"
    /\ Len(pgPages) > 1
    /\ pgOut # <<>>
    /\ Len(pgOut[1]) > 1

\* list_active_accounts has returned from more than one page, an account
\* that is not ACTIVE left out
C14_WitnessActive ==
    /\ pgOp = "list_active_accounts"
    /\ Len(pgPages) > 1
    /\ pgOut # <<>>
    /\ Len(pgOut[1]) < Len(Concat(pgPages))

-----------------------------------------------------------------------------
(* Claims about the SSO config generator *)

\* str is name in lower case with every space turned into a hyphen
IsProfileBase(str, name) ==
    /\ Len(str) = Len(name)
    /\ \A k \in 1..Len(name) :
          str[k] = (CASE name[k] = " " -> "-" [] name[k] = "D" -> "d" [] OTHER -> name[k])

\* the block b is the one for the account and the permission set
IsBlockOf(b, account, pset) ==
    /\ b.sso_account_id = account.Id
    /\ b.sso_role_name = pset
    /\ IF Len(permission_set_names) > 1
       THEN /\ Len(b.profile) = Len(account.Name) + 2
            /\ IsProfileBase(SubSeq(b.profile, 1, Len(account.Name)), account.Name)
            /\ SubSeq(b.profile, Len(account.Name) + 1, Len(b.profile)) = <<"-", pset>>
       ELSE IsProfileBase(b.profile, account.Name)

\* C15: the generator writes, for every account and every configured
\* permission set, exactly one profile block, named after the account name
\* in lower case with hyphens for spaces (the permission-set name appended
\* only when more than one is configured), with that account's id as
\* sso_account_id; and it writes no other block.
C15_OneProfilePerAccountAndPset ==
    ssoPc = "written" =>
        /\ Len(output_lines) = Len(ssoAccounts) * Len(permission_set_names)
        /\ \A i \in 1..Len(ssoAccounts), j \in 1..Len(permission_set_names) :
              Cardinality({k \in 1..Len(output_lines) :
                              IsBlockOf(output_lines[k], ssoAccounts[i],
                                        permission_set_names[j])}) = 1

\* one permission set, two accounts, one with an upper-case letter and a
\* space in its name: its profile is named "d-"
C15_Witness ==
    /\ ssoPc = "written"
    /\ Len(permission_set_names) = 1
    /\ Len(ssoAccounts) = 2
    /\ ssoAccounts[1].Name = <<"D", " ">>
    /\ output_lines[1].profile = <<"d", "-">>
    /\ output_lines[2].sso_account_id = 2

\* two permission sets: the names carry the permission-set name
C15_WitnessTwoPsets ==
    /\ ssoPc = "written"
    /\ Len(permission_set_names) = 2
    /\ Len(output_lines) = 4
    /\ output_lines[2].profile = <<"d", "e", "-", "ReadOnlyAccess">>

-----------------------------------------------------------------------------
(* Claims about the backend-name digest *)

\* the characters after the first, the prefix of the name
Suffix(name) == SubSeq(name, 2, Len(name))

IsHex40(str) ==
    /\ Len(str) = 40
    /\ \A k \in 1..40 : \E x \in 1..16 : HexChars[x] = str[k]

\* C16: every rendered block carries, in its bucket name and in its
\* lock-table name alike, the digest of '{account_id}-{region}' of its
\* account, which is a string of 40 hexadecimal characters; two blocks for
\* the same account id and region carry the same digest.
C16_DigestStableAndShared ==
    /\ \A k \in 1..Len(blocks) :
          /\ blocks[k].bucket[1] = "terraform-state-"
          /\ blocks[k].dynamodb_table[1] = "terraform-state-lock-"
          /\ Suffix(blocks[k].bucket) = Suffix(blocks[k].dynamodb_table)
          /\ IsHex40(Suffix(blocks[k].bucket))
          /\ Suffix(blocks[k].bucket) = sha1(beAccounts[k][1] \o <<"-">> \o beRegion)
    /\ written # <<>> => written[1] = blocks

\* the digest of "a" followed by "bc" is the published SHA-1 of "abc"
Sha1OfAbc ==
    <<"a", "9", "9", "9", "3", "e", "3", "6", "4", "7", "0", "6", "8", "1", "6", "a",
      "b", "a", "3", "e", "2", "5", "7", "1", "7", "8", "5", "0", "c", "2", "6", "c",
      "9", "c", "d", "0", "d", "8", "9", "d">>

\* the file is written with the block of account 123456789012 in us-east-1,
\* whose names end in 16474f18e6a98dcfa3b5ff7c5db48e9a1f3f537d
C16_Witness ==
    /\ bePc = "done"
    /\ Len(blocks) = 2
    /\ sha1(<<"a">> \o <<"b", "c">>) = Sha1OfAbc
    /\ \E k \in 1..2 :
          /\ beAccounts[k][1] = <<"1", "2", "3", "4", "5", "6", "7", "8", "9", "0", "1", "2">>
          /\ beRegion = <<"u", "s", "-", "e", "a", "s", "t", "-", "1">>
          /\ Suffix(written[1][k].dynamodb_table) =
                <<"1", "6", "4", "7", "4", "f", "1", "8", "e", "6", "a", "9", "8", "d", "c", "f",
                  "a", "3", "b", "5", "f", "f", "7", "c", "5", "d", "b", "4", "8", "e", "9", "a",
                  "1", "f", "3", "f", "5", "3", "7", "d">>

-----------------------------------------------------------------------------
(* Claims about the state-bucket check *)

\* C17: for an account whose role was assumed, check_tf_state_bucket
\* returns False when the bucket existence check answers 404, returns True
\* when the check succeeds, and lets any other error code of the check
\* reach the caller.
C17_MissingBucketIsBoolean ==
    (blI > 0 /\ blAccounts[blI].assumable) =>
        blResult = (CASE blAccounts[blI].head = "404" -> "False"
                      [] blAccounts[blI].head = "200" -> "True"
                      [] OTHER -> "ClientError")

\* what the code does: the only value it ever returns is False, for an
\* account whose role could not be assumed; it never reaches the check
C17_OnlyEverFalse ==
    /\ blResult \in {"None", "False", "AttributeError"}
    /\ blResult = "False" => ~blAccounts[blI].assumable
    /\ blResult = "AttributeError" => blAccounts[blI].assumable /\ blPc = "raised"

C17_WitnessRaised ==
    /\ blPc = "raised"
    /\ blI = 2
    /\ blAccounts[2].head = "200"

-----------------------------------------------------------------------------
(* Claims about the role swap *)

\* the call of frame j is the call of frame i over again: the calls between
\* them are each waiting for the call it made after swapping the roles, and
\* frame j is about to assume, for the same function, the role frame i was
\* called with
SameCallAgain(i, j) ==
    /\ i < j
    /\ \A k \in i..(j - 1) : stack[k].pc = "swap_wait"
    /\ stack[j].pc = "assume"
    /\ stack[j].fn = stack[i].fn
    /\ stack[j].role = OtherRole(stack[i].role)

\* C19: the role-swap recursion for one account terminates after a bounded
\* number of attempts: it never arrives, swap after swap, at the call it
\* started from (same function, same role, nothing changed in between),
\* from where it would go round again.
C19_SwapRecursionTerminates ==
    \A i, j \in 1..Len(stack) : ~SameCallAgain(i, j)

\* C20: when assuming the given role fails with AccessDenied and no SCP
\* message, the operation does not fail with that error: it goes on to swap
\* the two roles and retry.
C20_AccessDeniedSwapsAndRetries ==
    [][TopIs({"v1", "v2"}, "assume") =>
          ~(Len(stack') = Len(stack)
            /\ stack'[Len(stack)].pc = "raise"
            /\ stack'[Len(stack)].exc = "AccessDenied")]_vars

\* what the code does on the swap path: a call made after a swap follows an
\* SCP explicit deny that the operator declined to work around by a move,
\* or a call of execute_on_account_in_org_root that returned
C20_SwapOnlyAfterScpDeny ==
    [][(stack # <<>> /\ stack' # <<>> /\ Len(stack') = Len(stack)
        /\ stack'[Len(stack)].pc = "swap" /\ Top.pc # "swap")
          => Top.pc \in {"confirm_move", "exec_wait"}]_vars

-----------------------------------------------------------------------------
(* Claims about errors on the role-bootstrap path *)

\* C21: no call of try_to_assume_and_ask_to_create_role (or its _v2) that
\* caught a remote error whose code is not AccessDenied returns normally:
\* such an error reaches the caller.  (The except clause echoes nothing for
\* it, so a normal return is a silent one.)
C21_NoSilentFailure ==
    \A x \in exits :
        (x.fn \in {"v1", "v2"} /\ x.e # None /\ ErrorCode(x.e) # "AccessDenied")
            => x.how # "returned"

\* what the code does: such an error never leaves the call that caught it
C21_OtherErrorsAreSwallowed ==
    \A x \in exits :
        (x.fn \in {"v1", "v2"} /\ x.e # None /\ ErrorCode(x.e) # "AccessDenied")
            => x.how = "returned"

C21_WitnessSwallowed ==
    /\ outcome = "returned"
    /\ \E x \in exits : x.e = "Other" /\ x.how = "returned"

-----------------------------------------------------------------------------
(* Claims about the two variants of the role operation *)

\* C30: try_to_assume_and_ask_to_create_role_v2 ends as
\* try_to_assume_and_ask_to_create_role does after an SCP retry that moved
\* the account to the root and back: once execute_on_account_in_org_root
\* has ended, the call returns or raises, without a further role-assumption
\* attempt.
C30_V2EndsAfterScpRetry ==
    [][\A k \in 1..Len(stack) :
          (stack[k].pc = "exec_wait" /\ Len(stack') >= k)
              => stack'[k].pc \in {"exec_wait", "return", "raise"}]_vars

\* the first variant does end there: after its retried call and the move
\* back it returns or raises
C30_V1EndsAfterScpRetry ==
    [][\A k \in 1..Len(stack) :
          (stack[k].fn = "v1" /\ stack[k].pc \in {"retry_wait", "move_back"}
           /\ Len(stack') >= k)
              => stack'[k].pc \in {"retry_wait", "move_back", "return", "raise"}]_vars

-----------------------------------------------------------------------------
(* Claims about check_roles *)

CheckedAs(a, r, res) == Call(a, "assume_role", r, MGMT, res) \in calls

\* C22: check_roles attempts both roles whatever the first attempt
\* answered, records True for a role that was assumed and False for one
\* whose attempt failed with AccessDenied, without raising; an attempt that
\* fails with any other code makes the command raise.
C22_CheckRolesBooleans ==
    /\ pcR = "decide" =>
          LET a == batch[idx] IN
          /\ \A r \in RoleNames : \E res \in {"ok"} \cup RemoteErrors : CheckedAs(a, r, res)
          /\ \A c \in CallsOf(a) : ErrorCode(c.res) \in {"ok", "AccessDenied"}
          /\ status.org_access = CheckedAs(a, ORG_ACCESS_ROLE_NAME, "ok")
          /\ status.ct_execution = CheckedAs(a, CT_EXECUTION_ROLE_NAME, "ok")
    /\ \A c \in calls :
          (c.op = "assume_role" /\ ErrorCode(c.res) \notin {"ok", "AccessDenied"})
              => pcR = "raised"

\* the first role is denied, the second is still attempted and assumed
C22_Witness ==
    /\ pcR = "decide"
    /\ CheckedAs(batch[idx], ORG_ACCESS_ROLE_NAME, "AccessDenied")
    /\ CheckedAs(batch[idx], CT_EXECUTION_ROLE_NAME, "ok")
    /\ status = [org_access |-> FALSE, ct_execution |-> TRUE]

\* the second attempt fails with another code: the command raises
C22_WitnessRaised ==
    /\ pcR = "raised"
    /\ CheckedAs(batch[idx], ORG_ACCESS_ROLE_NAME, "ok")
    /\ CheckedAs(batch[idx], CT_EXECUTION_ROLE_NAME, "Other")

-----------------------------------------------------------------------------
(* Claims about the batch of create_roles *)

\* C25: a remote failure other than an access error while one account is
\* processed is a failure of that account only: when create_roles has
\* stopped, by its end or by an exception, every account of the batch has
\* been processed (its role check was made).
C25_FailureOfOneAccountOnly ==
    pcR \in {"done", "raised"} =>
        \A k \in 1..Len(batch) : CallsOf(batch[k]) # {}

\* what the code does: the exception ends the command at the account it
\* occurred in, with nothing echoed for that account but "Creating role"
C25_RaisedStopsTheBatch ==
    pcR = "raised" =>
        /\ \A k \in (idx + 1)..Len(batch) : CallsOf(batch[k]) = {}
        /\ \A m \in echo : m.acct = batch[idx] => m.msg = "creating"

C25_WitnessRaised ==
    /\ pcR = "raised"
    /\ idx = 1
    /\ Len(batch) = 2
    /\ Call(batch[1], "create_role", ORG_ACCESS_ROLE_NAME, CT_EXECUTION_ROLE_NAME, "Other") \in calls

\* C27: within one account the steps are ordered: create-role is issued
\* only after both role checks of the account have been made, with the
\* decision derived from their status, and after the existence check of the
\* missing role; attach-policy is issued only after create-role succeeded.
C27_CheckDecideCreate ==
    [][\A c \in calls' \ calls :
          /\ c.op = "create_role" =>
                /\ c.acct = batch[idx]
                /\ \A r \in RoleNames : \E res \in {"ok", "AccessDenied", "AccessDeniedSCP"} :
                      CheckedAs(c.acct, r, res)
                /\ status.org_access = CheckedAs(c.acct, ORG_ACCESS_ROLE_NAME, "ok")
                /\ status.ct_execution = CheckedAs(c.acct, CT_EXECUTION_ROLE_NAME, "ok")
                /\ to_create = role_to_create(status)
                /\ c.role = to_create.value
                /\ \E res \in {"ok", "NoSuchEntity"} \cup RemoteErrors :
                      Call(c.acct, "get_role", c.role, c.as, res) \in calls
          /\ c.op = "attach_role_policy" =>
                Call(c.acct, "create_role", c.role, c.as, "ok") \in calls]_vars

C27_Witness ==
    /\ pcR = "done"
    /\ \E a \in Accounts :
          /\ Call(a, "attach_role_policy", CT_EXECUTION_ROLE_NAME, ORG_ACCESS_ROLE_NAME, "ok") \in calls
          /\ Call(a, "get_role", CT_EXECUTION_ROLE_NAME, ORG_ACCESS_ROLE_NAME, "NoSuchEntity") \in calls

-----------------------------------------------------------------------------
(* Claims about what the units of the fan-out share *)

RunningRegionUnits == {u \in Accounts \X Regions : rState[u[1]][u[2]] = "running"}

\* C24: no session is used by two units at the same time: two region units
\* that are running together work with different sessions.
C24_NoSharedSession ==
    \A u, v \in RunningRegionUnits :
        u # v => RegionSession(u[1], u[2]) # RegionSession(v[1], v[2])

\* what the code does: the region units of one account all work with the
\* session of their account, and units of different accounts never share
C24_OneSessionPerAccount ==
    \A u, v \in RunningRegionUnits :
        (RegionSession(u[1], u[2]) = RegionSession(v[1], v[2])) <=> (u[1] = v[1])

-----------------------------------------------------------------------------
(* Claims about two overlapping moves to the root *)

HasMovedToRoot(q) == opPc[q] = "action" \/ opRan[q] # <<>>

\* C23: the relocation is unguarded: an operation reads the parent and
\* moves the account whatever the other operation is doing (no step waits
\* for the other), so that what it reads depends on the other: the parent
\* it records is the original one or, when and only when another operation
\* has moved the account to the root before it read, the root.  The two
\* witnesses are the interleavings: the second operation records the root
\* as the parent to restore to; an operation's action runs after the other,
\* which overlapped with it, has moved the account back under its OU.
C23_UnguardedRace ==
    /\ [](\A p \in Ops :
             /\ opPc[p] = "lookup" => ENABLED RaceLookup(p)
             /\ opPc[p] = "move" => ENABLED RaceMoveToRoot(p)
             /\ opPc[p] # "lookup" =>
                   /\ opParentId[p] \in {raceOrig, Root}
                   /\ (opParentId[p] = Root /\ raceOrig # Root) =>
                         \E q \in Ops \ {p} : HasMovedToRoot(q))
    /\ [][\A p \in Ops :
             (opPc[p] = "lookup" /\ opPc'[p] = "move" /\ raceOrig # Root
              /\ \E q \in Ops \ {p} : opPc[q] \in {"action", "move_back", "move_back_exc"})
                 => opParentId'[p] = Root]_vars

\* the second operation read the parent after the first had moved the
\* account: it holds the root as the parent to restore to
C23_Witness ==
    /\ raceOrig \in OUs
    /\ opPc[1] = "action"
    /\ opPc[2] = "move"
    /\ opParentId[1] = raceOrig
    /\ opParentId[2] = Root

\* operation 2 read the parent while operation 1 had not yet moved the
\* account back, and its action ran after operation 1 had moved it back
C23_WitnessAfterMoveBack ==
    /\ raceOrig \in OUs
    /\ opRan[2] # <<>>
    /\ 1 \in opRan[2][1].after
    /\ 1 \notin opBegan[2]

\* with a remote that refuses a move whose source is not the parent of the
\* account, an action never runs while the account is outside the root
C23_ActionRunsUnderRoot ==
    \A p \in Ops : opRan[p] # <<>> => opRan[p][1].at = Root

-----------------------------------------------------------------------------
(* Claims about a networking account that fails *)

UsingRam == tagPc # "idle" /\ tagIn.entry = "using_ram"

\* C26: in copy_vpc_subnet_tags_using_ram an exception while a networking
\* account is processed is reported and the loop goes on with the next
\* account of the list: the function never ends with that error, the
\* results kept so far stay in all_results, every account of the list is
\* reached (the step taken at an account starts with its assume_role,
\* whatever failed before), and the function returns only after the last
\* account.
C26_FailedAccountDoesNotStopTheOthers ==
    /\ [](UsingRam =>
             /\ tagOut \in {"running", "returned", "ValueError"}
             /\ tagFailed # {} => tagOut \in {"running", "returned"}
             /\ (tagPc = "done" /\ tagOut = "returned" /\ tagIn.ids # <<>>) =>
                   tagI = Len(tagIn.ids) + 1)
    /\ [][UsingRam =>
             /\ tagAll \subseteq tagAll'
             /\ tagFailed' # tagFailed =>
                   /\ tagEcho' = "Error processing networking account"
                   /\ tagAll' = tagAll
                   /\ tagOut' = "running"
                   /\ tagPc' = "net"
                   /\ tagI' = tagI + 1
             /\ (tagPc = "net" /\ tagI <= Len(tagIn.ids)) =>
                   TagCall("assume_role", tagIn.ids[tagI], 0) \in tagCalls'
             /\ tagI' \in {tagI, tagI + 1}]_vars

\* the first networking account failed, the second was processed and its
\* results are returned
C26_Witness ==
    /\ UsingRam
    /\ tagOut = "returned"
    /\ tagFailed = {1}
    /\ tagAll = {2}

\* the second networking account failed after results were kept for the
\* first and for one of its own target accounts: they are returned
C26_WitnessKept ==
    /\ UsingRam
    /\ tagOut = "returned"
    /\ tagFailed = {2}
    /\ tagAll = {1, 2}

-----------------------------------------------------------------------------
(* Claims about the subnets that receive tags *)

SubnetTagCalls(cs) == {c \in cs : c.op = "create_tags" /\ c.res # VpcRes}

\* C28: in copy_vpc_subnet_tags_using_ram every create_tags issued for a
\* subnet is issued in the target account being processed, for a subnet of
\* the processed VPC whose RAM resource association has status ASSOCIATED
\* and which is among the subnets the target account sees in the VPC; at
\* most one subnet is tagged per step.
C28_OnlySharedVisibleSubnetsTagged ==
    [][UsingRam =>
          /\ \A c \in SubnetTagCalls(tagCalls') :
                /\ tagPc = "subnet"
                /\ c.acct = Head(tagTodo)
                /\ c.acct \in Targets
                /\ c.res = Head(tagLeft)
                /\ c.res \in Subnets
                /\ tagAssoc[c.res] = "ASSOCIATED"
                /\ tagSeen'
          /\ \A t \in tagged' : t.res # VpcRes =>
                TagCall("create_tags", t.acct, t.res) \in SubnetTagCalls(tagCalls')]_vars

\* a shared subnet is tagged in a target account while another subnet of
\* the VPC has an association that is not ASSOCIATED
C28_Witness ==
    /\ UsingRam
    /\ \E c \in SubnetTagCalls(tagCalls) :
          /\ tagAssoc[c.res] = "ASSOCIATED"
          /\ [acct |-> c.acct, res |-> c.res] \in tagged
          /\ \E sn \in Subnets : tagAssoc[sn] = "DISASSOCIATED"

\* a shared subnet that the target account does not see: no call, False
C28_WitnessNotVisible ==
    /\ UsingRam
    /\ ~tagIn.dry_run
    /\ tagPc = "subnet"
    /\ ~tagSeen
    /\ tagCalls = {}
    /\ \E r \in tagResult : r.res # VpcRes /\ ~r.ok

-----------------------------------------------------------------------------
(* Claims about the subnet type in a subnet name *)

\* the subnet types t for which name is vpc_name-t-az_id, az_id any str
FormTypes(name, vpc_name, valid) ==
    {valid[i] : i \in {j \in 1..Len(valid) :
        LET head == vpc_name \o <<"-">> \o valid[j] \o <<"-">> IN
        Len(name) >= Len(head) /\ SubSeq(name, 1, Len(head)) = head}}

HasHyphen(str) == \E i \in 1..Len(str) : str[i] = "-"

\* the statement of C29 for the call that has run
TypeOfForm ==
    LET types == FormTypes(snIn.subnet_name, snIn.vpc_name, VALID_SUBNET_TYPES) IN
    IF types = {}
    THEN snOut[1] = ReturnedNone
    ELSE ~snOut[1].none /\ snOut[1].value \in types

\* C29: get_subnet_type_from_name returns the subnet type for every subnet
\* name of the form <vpc_name>-<subnet_type>-<az_id> with a valid type, for
\* every VPC name, hyphenated ones included, and None for every other name.
C29_TypeForEveryVpcName ==
    snOut # <<>> => TypeOfForm

\* the same for VPC names without a hyphen, which is what the code does
C29_TypeForHyphenFreeVpcNames ==
    (snOut # <<>> /\ ~HasHyphen(snIn.vpc_name)) => TypeOfForm

\* a name of the form under a hyphenated VPC name, for which the code
\* returned None
C29_WitnessHyphenated ==
    /\ snOut # <<>>
    /\ snIn.vpc_name = <<"a", "-", "a">>
    /\ snIn.subnet_name = <<"a", "-", "a", "-", "d", "-", "a">>
    /\ snOut[1] = ReturnedNone

====
